---------------------------- MODULE Spec2Model ----------------------------
(***************************************************************************)
(* A model of exhume_filesystem: the APFS adapter (src/src/apfs_impl.rs),  *)
(* the generic enumeration engine (src/src/main.rs) and the NT timestamp   *)
(* normalisation (src/src/ntfs_impl.rs).                                   *)
(*                                                                         *)
(* Scale.  TLC's integers are 32 bits wide, so the 64-bit quantities of    *)
(* the code are modelled on a narrower word that keeps the code's layout:  *)
(* a u64 is FsBits + InodeBits bits wide (8 volume bits above InodeBits    *)
(* inode bits, the code's 8 + 56), every u64 operation wraps, saturates or *)
(* is checked at U64_MAX exactly where the code's does, and byte counts    *)
(* are scaled so that MAX_READ_BYTES (512 MiB in the code) is 8 units and  *)
(* "1 GiB" is 2 * MAX_READ_BYTES.                                          *)
(***************************************************************************)
EXTENDS Integers, Sequences, FiniteSets, TLC

VARIABLES
    container,        \* the APFS container handed to ApfsFs::new
    probe,            \* the inode and extent list of the file under test
    overflow_checks,  \* build profile: TRUE = arithmetic overflow panics
    valid_volumes,    \* ApfsFs.valid_volumes
    volume,           \* ApfsFs.volume (the selected volume superblock)
    root_inode_id,    \* ApfsFs.root_inode_id
    cached_trees,     \* ApfsFs.cached_trees
    body_pos,         \* cursor of the byte source apfs.body
    arg,              \* the arguments drawn for the calls of this run
    last,             \* the last call made and what it returned
    gfs,              \* the filesystem the generic enumeration runs on
    walk,             \* the enumeration in progress: queue, visited, output
    detected,         \* the image handed to detect_filesystem and the DetectedFs
    stream            \* the FsFileReadSeek: file, len, pos, cache, cache_start

vars == <<container, probe, overflow_checks, valid_volumes, volume,
          root_inode_id, cached_trees, body_pos, arg, last, gfs, walk,
          detected, stream>>

---------------------------------------------------------------------------
(* Widths and program constants *)

\* number of inode bits of the modelled u64 (56 in the code)
InodeBits == 4

\* number of volume-index bits above the inode bits (64 - 56)
FsBits == 8

\* 2^n
RECURSIVE Pow2(_)
Pow2(n) == IF n = 0 THEN 1 ELSE 2 * Pow2(n - 1)

U64_MAX == Pow2(FsBits + InodeBits) - 1

\* const MAX_READ_BYTES: u64 = 512 * 1024 * 1024, in model units
MAX_READ_BYTES == 8

\* const PACKED_INODE_MASK: u64 = 0x00ff_ffff_ffff_ffff
PACKED_INODE_MASK == Pow2(InodeBits) - 1

\* apfs.block_size_u64()
BlockSize == 2

\* length in bytes of the byte source
DiskLen == 40

Min(a, b) == IF a < b THEN a ELSE b
Max(a, b) == IF a > b THEN a ELSE b

\* u64::saturating_add
saturating_add(a, b) == IF a + b > U64_MAX THEN U64_MAX ELSE a + b

\* u64::saturating_sub
saturating_sub(a, b) == IF a < b THEN 0 ELSE a - b

\* u64::checked_mul / checked_add: -1 stands for None
checked_mul(a, b) == IF a * b > U64_MAX THEN -1 ELSE a * b
checked_add(a, b) == IF a + b > U64_MAX THEN -1 ELSE a + b

\* the byte stored at physical offset p of the byte source (never 0, so
\* that data read from the source differs from a hole's zero fill)
BodyByte(p) == (p % 250) + 1

Zeros(n) == [i \in 1..n |-> 0]

---------------------------------------------------------------------------
(* Results *)

Ok(v) == [kind |-> "ok", val |-> v, msg |-> ""]
Err(m) == [kind |-> "err", val |-> <<>>, msg |-> m]
Abort == [kind |-> "abort", val |-> <<>>, msg |-> "attempt to add with overflow"]

IsOk(r) == r.kind = "ok"

---------------------------------------------------------------------------
(* The container on disk: what the exhume_apfs driver returns *)

\* Option::None of an inode id or of a data-stream size
None == -1

\* is_dir_mode(mode)
is_dir_mode(mode) == mode = "dir"

\* an InodeVal: mode, dstream (its size, or None), uncompressed_size,
\* private_id
Inode(mode, dstream, usize, priv) ==
    [mode |-> mode, dstream |-> dstream, uncompressed_size |-> usize,
     private_id |-> priv]

\* a file extent: logical_addr, phys_block_num, length_bytes
Extent(l, p, n) == [logical_addr |-> l, phys_block_num |-> p, length_bytes |-> n]

\* a DirEntry of the driver: name and Option<inode_id>
DirEntry(n, i) == [name |-> n, inode_id |-> i]

\* the inode id of the file under test, in the tree "main"
ProbeId == 7

\* an inode id that needs more than the low bits of a packed identifier
WideId == Pow2(InodeBits) + 5

\* the inodes of a filesystem tree, by tree and inode id
TreeInodes(tree) ==
    CASE tree = "main" ->
           (2 :> Inode("dir", None, 0, 0)) @@
           (3 :> Inode("dir", None, 0, 0)) @@
           (4 :> Inode("reg", 2, 0, 9)) @@
           (5 :> Inode("reg", None, 1, 0)) @@
           (6 :> Inode("dir", None, 0, 0)) @@
           (ProbeId :> probe.inode)
      [] tree = "second" ->
           (2 :> Inode("dir", None, 0, 0)) @@
           (4 :> Inode("dir", None, 0, 0)) @@
           (6 :> Inode("reg", 1, 0, 0)) @@
           (8 :> Inode("reg", 3, 0, 0))
      [] tree = "wide" ->
           (2 :> Inode("dir", None, 0, 0)) @@
           (5 :> Inode("reg", 1, 0, 0)) @@
           (WideId :> Inode("reg", 2, 0, 0))
      [] tree = "torn" ->
           (2 :> Inode("dir", None, 0, 0)) @@
           (4 :> Inode("reg", 1, 0, 0))
      [] tree = "zero" ->
           (2 :> Inode("dir", None, 0, 0)) @@
           (0 :> Inode("reg", 1, 0, 0)) @@
           (PACKED_INODE_MASK :> Inode("reg", 2, 0, 0))
      [] OTHER -> << >>

\* FsTree::inode_by_id: Ok(Some(inode)), Ok(None), or an Err for a record
\* that cannot be decoded
inode_by_id(tree, id) ==
    IF tree = "torn" /\ id = 3 THEN Err("inode record unreadable")
    ELSE IF id \in DOMAIN TreeInodes(tree)
      THEN Ok(<<TreeInodes(tree)[id]>>)
      ELSE Ok(<< >>)

\* FsTree::inode_id_by_private_id: Ok(Some(inode_id)) or Ok(None)
inode_id_by_private_id(tree, priv) ==
    LET hits == {i \in DOMAIN TreeInodes(tree) :
                    /\ TreeInodes(tree)[i].private_id = priv
                    /\ priv # 0}
    IN  IF hits = {} THEN Ok(<< >>)
        ELSE Ok(<<CHOOSE i \in hits : \A j \in hits : i <= j>>)

\* FsTree::file_extents: the extent records keyed by an object id; an Err
\* for an id whose records cannot be read
file_extents(tree, id) ==
    CASE tree = "main" /\ id = ProbeId -> Ok(probe.ext)
      [] tree = "main" /\ id = 9 -> Ok(<<Extent(0, 4, 2)>>)
      [] tree = "main" /\ id = 5 -> Err("extent records unreadable")
      [] tree = "second" /\ id = 6 -> Ok(<<Extent(0, 6, 1)>>)
      [] tree = "second" /\ id = 8 -> Ok(<<Extent(2, 8, 1), Extent(0, 7, 1)>>)
      [] OTHER -> Ok(<< >>)

\* Result::unwrap_or_default on a Vec
unwrap_or_default(r) == IF IsOk(r) THEN r.val ELSE << >>

\* FsTree::dir_children; an Err for a directory whose records cannot be read
dir_children(tree, id) ==
    CASE tree = "main" /\ id = 2 ->
           Ok(<<DirEntry("a", 3), DirEntry("f", 4), DirEntry("p", ProbeId),
                DirEntry("ghost", None), DirEntry("lost", 12)>>)
      [] tree = "main" /\ id = 3 ->
           Ok(<<DirEntry("f2", 4), DirEntry("up", 2), DirEntry("e", 5),
                DirEntry("self", 3), DirEntry("bad", 6)>>)
      [] tree = "main" /\ id = 6 -> Err("directory records unreadable")
      [] tree = "second" /\ id = 2 ->
           Ok(<<DirEntry("d", 4), DirEntry("g", 6)>>)
      [] tree = "second" /\ id = 4 ->
           Ok(<<DirEntry("h", 8), DirEntry("g2", 6)>>)
      [] tree = "wide" /\ id = 2 ->
           Ok(<<DirEntry("n", 5), DirEntry("w", WideId)>>)
      [] tree = "torn" /\ id = 2 ->
           Ok(<<DirEntry("k", 4), DirEntry("t", 3), DirEntry("k2", 4)>>)
      [] tree = "zero" /\ id = 2 ->
           Ok(<<DirEntry("m", PACKED_INODE_MASK), DirEntry("z", 0)>>)
      [] OTHER -> Ok(<< >>)

\* the root of a volume whose tree cannot be searched for a root inode
Unreadable == -2

\* an ApfsVolumeSuperblock as found in the container: fs_index, the tree
\* its root_tree_oid names, whether open_fstree_for_volume succeeds, and
\* what detect_root_inode_id finds (an id, None, or Unreadable for an Err)
Volume(i, tree, opens, root) ==
    [fs_index |-> i, root_tree_oid |-> tree, opens |-> opens, root |-> root]

\* the containers of the model (apfs.volumes, in the driver's order)
Containers ==
    { <<Volume(1, "second", TRUE, 2), Volume(0, "main", TRUE, 2),
        Volume(2, "none", FALSE, None)>>,
      <<Volume(2, "main", TRUE, 2), Volume(1, "second", TRUE, 2)>>,
      <<Volume(3, "second", TRUE, 2), Volume(0, "none", TRUE, None),
        Volume(1, "main", TRUE, 2)>>,
      <<Volume(0, "wide", TRUE, 2), Volume(2, "second", TRUE, 2)>>,
      <<Volume(0, "second", TRUE, 2), Volume(1, "torn", TRUE, 2)>>,
      <<Volume(0, "zero", TRUE, 2), Volume(1, "zero", TRUE, 2)>> }

\* APFS::open_fstree_for_volume: the FsTree handle of the volume
open_fstree_for_volume(vol) ==
    IF vol.opens THEN Ok(vol.root_tree_oid) ELSE Err("cannot open fstree")

\* FsTree::detect_root_inode_id
detect_root_inode_id(vol) ==
    IF vol.root = Unreadable THEN Err("cannot read the root inode")
    ELSE IF vol.root = None THEN Ok(<< >>) ELSE Ok(<<vol.root>>)

---------------------------------------------------------------------------
(* ApfsFs::new *)

\* vols.sort_by_key(|v| v.fs_index): a stable insertion sort
RECURSIVE InsertByKey(_, _)
InsertByKey(sorted, v) ==
    IF sorted = << >> THEN <<v>>
    ELSE IF sorted[Len(sorted)].fs_index <= v.fs_index
           THEN Append(sorted, v)
           ELSE Append(InsertByKey(SubSeq(sorted, 1, Len(sorted) - 1), v),
                       sorted[Len(sorted)])

\* mutant of SortByFsIndex: the volumes keep the driver's order
SortByFsIndex_Unsorted(vols) == vols

RECURSIVE SortByFsIndex(_)
SortByFsIndex(vols) ==
    IF vols = << >> THEN << >>
    ELSE InsertByKey(SortByFsIndex(SubSeq(vols, 1, Len(vols) - 1)),
                     vols[Len(vols)])

\* the first element of a sequence that satisfies a test on fs_index
FindFsIndex(seq, i) ==
    LET hits == {k \in 1..Len(seq) : seq[k].fs_index = i}
    IN  IF hits = {} THEN << >>
        ELSE <<seq[CHOOSE k \in hits : \A j \in hits : k <= j]>>

\* lines 47-58: volume 0 first, then every fs_index not yet a candidate
RECURSIVE PushCandidates(_, _)
PushCandidates(cands, vols) ==
    IF vols = << >> THEN cands
    ELSE PushCandidates(
           IF FindFsIndex(cands, Head(vols).fs_index) = << >>
             THEN Append(cands, Head(vols)) ELSE cands,
           Tail(vols))

Candidates(vols) ==
    LET sorted == SortByFsIndex(vols)
    IN  PushCandidates(FindFsIndex(sorted, 0), sorted)

\* lines 60-70: the validation loop; an Err of detect_root_inode_id leaves
\* the constructor through `?`
RECURSIVE Validate(_, _)
Validate(cands, valid) ==
    IF cands = << >> THEN Ok(valid)
    ELSE LET vol == Head(cands)
             fst == open_fstree_for_volume(vol)
             root == detect_root_inode_id(vol)
         IN  IF ~IsOk(fst) THEN Validate(Tail(cands), valid)
             ELSE IF ~IsOk(root) THEN root
             ELSE IF root.val = << >> THEN Validate(Tail(cands), valid)
             ELSE Validate(Tail(cands), Append(valid, <<vol, root.val[1]>>))

\* ApfsFs::new: Ok of the adapter's fields, or Err
ApfsNew(vols) ==
    IF vols = << >> THEN Err("No APFS volumes discovered")
    ELSE LET v == Validate(Candidates(vols), << >>)
         IN  IF ~IsOk(v) THEN v
             ELSE IF v.val = << >>
               THEN Err("Could not open any APFS volume with a valid filesystem tree")
             ELSE LET zero == {k \in 1..Len(v.val) : v.val[k][1].fs_index = 0}
                      selected == IF zero = {} THEN v.val[1]
                                  ELSE v.val[CHOOSE k \in zero : \A j \in zero : k <= j]
                  IN  Ok([volume |-> selected[1], root_inode_id |-> selected[2],
                          valid_volumes |-> v.val])

---------------------------------------------------------------------------
(* ApfsFs: the tree cache and the identifier scheme *)

\* ApfsFs::volume_by_index: Some(volume) or None
volume_by_index(fs_index) ==
    LET hits == {k \in 1..Len(valid_volumes) : valid_volumes[k][1].fs_index = fs_index}
    IN  IF hits = {} THEN << >>
        ELSE <<valid_volumes[CHOOSE k \in hits : \A j \in hits : k <= j][1]>>

\* mutant of get_fstree: a tree newly opened replaces the cache
get_fstree_Replace(cache, fs_index) ==
    IF fs_index \in DOMAIN cache
      THEN [res |-> Ok(cache[fs_index]), cache |-> cache]
    ELSE IF volume_by_index(fs_index) = << >>
      THEN [res |-> Err("Volume with fs_index not found"), cache |-> cache]
    ELSE LET tree == open_fstree_for_volume(volume_by_index(fs_index)[1])
         IN  IF ~IsOk(tree) THEN [res |-> tree, cache |-> cache]
             ELSE [res |-> tree, cache |-> (fs_index :> tree.val)]

\* ApfsFs::get_fstree on a cache: the tree (or the error) and the cache
\* after the call
get_fstree(cache, fs_index) ==
    IF fs_index \in DOMAIN cache
      THEN [res |-> Ok(cache[fs_index]), cache |-> cache]
    ELSE IF volume_by_index(fs_index) = << >>
      THEN [res |-> Err("Volume with fs_index not found"), cache |-> cache]
    ELSE LET tree == open_fstree_for_volume(volume_by_index(fs_index)[1])
         IN  IF ~IsOk(tree) THEN [res |-> tree, cache |-> cache]
             ELSE [res |-> tree, cache |-> (fs_index :> tree.val) @@ cache]

\* mutant of pack_identifier: the volume index is shifted one bit short
pack_identifier_ShortShift(fs_index, inode_id) ==
    ((fs_index * Pow2(InodeBits - 1)) % (U64_MAX + 1)) + (inode_id % (PACKED_INODE_MASK + 1))

\* pack_identifier: ((fs_index as u64) << 56) | (inode_id & PACKED_INODE_MASK)
pack_identifier(fs_index, inode_id) ==
    ((fs_index * Pow2(InodeBits)) % (U64_MAX + 1)) + (inode_id % (PACKED_INODE_MASK + 1))

\* unpack_identifier: Some((fs_index, inode_id)) or None
unpack_identifier(file_id) ==
    LET fs_index == file_id \div Pow2(InodeBits)
        inode_id == file_id % (PACKED_INODE_MASK + 1)
    IN  IF fs_index > 0 /\ inode_id > 0 THEN <<fs_index, inode_id>> ELSE << >>

---------------------------------------------------------------------------
(* ApfsFileRecord and the content reads *)

\* an ApfsFileRecord
ApfsFileRecord(fs_index, inode_id, inode) ==
    [fs_index |-> fs_index, inode_id |-> inode_id, inode |-> inode]

\* FileCommon::size for ApfsFileRecord: dstream.size, else uncompressed_size
size(file) ==
    IF file.inode.dstream # None THEN file.inode.dstream
    ELSE file.inode.uncompressed_size

\* FileCommon::is_dir for ApfsFileRecord
is_dir(file) == is_dir_mode(file.inode.mode)

\* mutant of MaxEnd: the end of an extent wraps around
RECURSIVE MaxEnd_Wrapping(_)
MaxEnd_Wrapping(ext) ==
    IF ext = << >> THEN 0
    ELSE Max((Head(ext).logical_addr + Head(ext).length_bytes) % (U64_MAX + 1),
             MaxEnd_Wrapping(Tail(ext)))

\* the largest logical_addr.saturating_add(length_bytes) of an extent list
RECURSIVE MaxEnd(_)
MaxEnd(ext) ==
    IF ext = << >> THEN 0
    ELSE Max(saturating_add(Head(ext).logical_addr, Head(ext).length_bytes),
             MaxEnd(Tail(ext)))

\* ApfsFileRecord::effective_size
effective_size(file, fst) ==
    LET declared == size(file)
        first == unwrap_or_default(file_extents(fst, file.inode_id))
        ext == IF first = << >> /\ file.inode.private_id # 0
                 THEN unwrap_or_default(file_extents(fst, file.inode.private_id))
                 ELSE first
        max_end == MaxEnd(ext)
    IN  IF max_end > declared THEN max_end ELSE declared

\* lines 472-480: the extent list the content read walks
ReadExtents(file, fst) ==
    LET first == unwrap_or_default(file_extents(fst, file.inode_id))
    IN  IF first = << >> /\ file.inode.private_id # 0
          THEN unwrap_or_default(file_extents(fst, file.inode.private_id))
          ELSE first

\* mutant of CopyFromSlice: the overlap is copied to the start of the buffer
CopyFromSlice_AtStart(out, dst_off, buf) ==
    [i \in 1..Len(out) |-> IF i <= Len(buf) THEN buf[i] ELSE out[i]]

\* lines 504-506: out[dst_off..dst_off + read_len].copy_from_slice(&buf)
CopyFromSlice(out, dst_off, buf) ==
    [i \in 1..Len(out) |->
        IF dst_off < i /\ i <= dst_off + Len(buf) THEN buf[i - dst_off] ELSE out[i]]

\* lines 500-502: seek the byte source to phys_byte and read_exact read_len
\* bytes; a read past the end of the source is an error
ReadExactAt(phys_byte, read_len) ==
    IF phys_byte + read_len > DiskLen
      THEN [res |-> Err("failed to fill whole buffer"),
            pos |-> Max(phys_byte, DiskLen)]
      ELSE [res |-> Ok([i \in 1..read_len |-> BodyByte(phys_byte + i - 1)]),
            pos |-> phys_byte + read_len]

\* mutant of PhysByte: the offset inside the extent is dropped
PhysByte_NoRel(phys_block_num, rel_in_ext) ==
    checked_mul(phys_block_num, BlockSize)

\* mutant of PhysByte: the physical offset wraps around
PhysByte_Wrapping(phys_block_num, rel_in_ext) ==
    (phys_block_num * BlockSize + rel_in_ext) % (U64_MAX + 1)

\* lines 495-499: phys_block_num.checked_mul(bs).and_then(|x|
\* x.checked_add(rel_in_ext)); -1 stands for the overflow
PhysByte(phys_block_num, rel_in_ext) ==
    LET prod == checked_mul(phys_block_num, BlockSize)
    IN  IF prod = -1 THEN -1 ELSE checked_add(prod, rel_in_ext)

\* lines 483-507: the loop over the extents, from extent k on.  st holds the
\* output buffer, the cursor of the byte source and the reads made so far.
RECURSIVE ExtentLoop(_, _, _, _, _)
ExtentLoop(ext, k, offset, end, st) ==
    IF k > Len(ext) THEN [res |-> Ok(st.out), pos |-> st.pos, reads |-> st.reads]
    ELSE
      LET e == ext[k]
          ext_start == e.logical_addr
          ext_end == saturating_add(e.logical_addr, e.length_bytes)
          ov_start == Max(ext_start, offset)
          ov_end == Min(ext_end, end)
          read_len == ov_end - ov_start
          rel_in_ext == ov_start - ext_start
          phys_byte == PhysByte(e.phys_block_num, rel_in_ext)
          rd == ReadExactAt(phys_byte, read_len)
          dst_off == ov_start - offset
      IN  IF ov_end <= ov_start THEN ExtentLoop(ext, k + 1, offset, end, st)
          ELSE IF phys_byte = -1
            THEN [res |-> Err("physical offset overflow"), pos |-> st.pos,
                  reads |-> st.reads]
          ELSE IF ~IsOk(rd.res)
            THEN [res |-> rd.res, pos |-> rd.pos,
                  reads |-> Append(st.reads, <<phys_byte, read_len>>)]
          ELSE ExtentLoop(ext, k + 1, offset, end,
                 [out |-> CopyFromSlice(st.out, dst_off, rd.res.val),
                  pos |-> rd.pos,
                  reads |-> Append(st.reads, <<phys_byte, read_len>>)])

\* mutant of CapEnd: the window is not capped
CapEnd_NoCap(offset) == U64_MAX

\* line 467: offset + MAX_READ_BYTES, a plain u64 addition: on overflow it
\* panics when the build checks overflow and wraps when it does not
CapEnd(offset) ==
    IF offset + MAX_READ_BYTES <= U64_MAX THEN offset + MAX_READ_BYTES
    ELSE IF overflow_checks THEN -1
    ELSE (offset + MAX_READ_BYTES) % (U64_MAX + 1)

\* mutant of read_file_slice_with_size: the directory test comes before
\* the test for an empty request
read_file_slice_with_size_DirFirst(ad, file, offset, length, file_size) ==
    LET quiet(r) == [res |-> r, cache |-> ad.cache, pos |-> ad.pos, reads |-> << >>]
        cap == CapEnd(offset)
        end == Min(Min(saturating_add(offset, length), file_size), cap)
        req_len == saturating_sub(end, offset)
        t == get_fstree(ad.cache, file.fs_index)
        loop == ExtentLoop(ReadExtents(file, t.res.val), 1, offset, end,
                           [out |-> Zeros(req_len), pos |-> ad.pos, reads |-> << >>])
    IN  IF is_dir_mode(file.inode.mode)
          THEN quiet(Err("requested file content for a directory"))
        ELSE IF length = 0 THEN quiet(Ok(<< >>))
        ELSE IF offset >= file_size THEN quiet(Ok(<< >>))
        ELSE IF cap = -1 THEN quiet(Abort)
        ELSE IF ~IsOk(t.res)
          THEN [res |-> t.res, cache |-> t.cache, pos |-> ad.pos, reads |-> << >>]
        ELSE [res |-> loop.res, cache |-> t.cache, pos |-> loop.pos,
              reads |-> loop.reads]

\* ApfsFs::read_file_slice_with_size, from the adapter state ad = [cache,
\* pos]: the result, the state after the call and the reads of the byte
\* source it made
read_file_slice_with_size(ad, file, offset, length, file_size) ==
    LET quiet(r) == [res |-> r, cache |-> ad.cache, pos |-> ad.pos, reads |-> << >>]
        cap == CapEnd(offset)
        end == Min(Min(saturating_add(offset, length), file_size), cap)
        req_len == saturating_sub(end, offset)
        t == get_fstree(ad.cache, file.fs_index)
        loop == ExtentLoop(ReadExtents(file, t.res.val), 1, offset, end,
                           [out |-> Zeros(req_len), pos |-> ad.pos, reads |-> << >>])
    IN  IF length = 0 THEN quiet(Ok(<< >>))
        ELSE IF is_dir_mode(file.inode.mode)
          THEN quiet(Err("requested file content for a directory"))
        ELSE IF offset >= file_size THEN quiet(Ok(<< >>))
        ELSE IF cap = -1 THEN quiet(Abort)
        ELSE IF ~IsOk(t.res)
          THEN [res |-> t.res, cache |-> t.cache, pos |-> ad.pos, reads |-> << >>]
        ELSE [res |-> loop.res, cache |-> t.cache, pos |-> loop.pos,
              reads |-> loop.reads]

\* mutant of read_file_content: the size is not checked against the cap
read_file_content_NoCap(ad, file) ==
    LET t == get_fstree(ad.cache, file.fs_index)
        sz == effective_size(file, t.res.val)
    IN  IF ~IsOk(t.res)
          THEN [res |-> t.res, cache |-> t.cache, pos |-> ad.pos, reads |-> << >>]
        ELSE read_file_slice_with_size([cache |-> t.cache, pos |-> ad.pos],
                                       file, 0, sz, sz)

\* Filesystem::read_file_content for ApfsFs
read_file_content(ad, file) ==
    LET t == get_fstree(ad.cache, file.fs_index)
        sz == effective_size(file, t.res.val)
    IN  IF ~IsOk(t.res)
          THEN [res |-> t.res, cache |-> t.cache, pos |-> ad.pos, reads |-> << >>]
        ELSE IF sz > MAX_READ_BYTES
          THEN [res |-> Err("refusing to allocate (cap)"), cache |-> t.cache,
                pos |-> ad.pos, reads |-> << >>]
        ELSE read_file_slice_with_size([cache |-> t.cache, pos |-> ad.pos],
                                       file, 0, sz, sz)

\* mutant of read_file_prefix: the length is clamped to the declared size
read_file_prefix_Declared(ad, file, length) ==
    LET t == get_fstree(ad.cache, file.fs_index)
        sz == effective_size(file, t.res.val)
        to_read == Min(length, size(file))
    IN  IF ~IsOk(t.res)
          THEN [res |-> t.res, cache |-> t.cache, pos |-> ad.pos, reads |-> << >>]
        ELSE read_file_slice_with_size([cache |-> t.cache, pos |-> ad.pos],
                                       file, 0, to_read, sz)

\* Filesystem::read_file_prefix for ApfsFs
read_file_prefix(ad, file, length) ==
    LET t == get_fstree(ad.cache, file.fs_index)
        sz == effective_size(file, t.res.val)
        to_read == Min(length, sz)
    IN  IF ~IsOk(t.res)
          THEN [res |-> t.res, cache |-> t.cache, pos |-> ad.pos, reads |-> << >>]
        ELSE read_file_slice_with_size([cache |-> t.cache, pos |-> ad.pos],
                                       file, 0, to_read, sz)

\* Filesystem::read_file_slice for ApfsFs
read_file_slice(ad, file, offset, length) ==
    LET t == get_fstree(ad.cache, file.fs_index)
        sz == effective_size(file, t.res.val)
    IN  IF ~IsOk(t.res)
          THEN [res |-> t.res, cache |-> t.cache, pos |-> ad.pos, reads |-> << >>]
        ELSE read_file_slice_with_size([cache |-> t.cache, pos |-> ad.pos],
                                       file, offset, length, sz)

---------------------------------------------------------------------------
(* ApfsFs: get_file and list_dir *)

\* mutant of get_file: an identifier that unpacks is always looked up in the
\* volume it names
get_file_NoFallback(ad, file_id) ==
    LET u == unpack_identifier(file_id)
        known == u # << >>
        fs_index == IF known THEN u[1] ELSE volume.fs_index
        inode_query == IF known THEN u[2] ELSE file_id
        t == get_fstree(ad.cache, fs_index)
        out(r) == [res |-> r, cache |-> t.cache, pos |-> ad.pos, reads |-> << >>]
        direct == inode_by_id(t.res.val, inode_query)
        byPriv == inode_id_by_private_id(t.res.val, inode_query)
        second == inode_by_id(t.res.val, byPriv.val[1])
    IN  IF ~IsOk(t.res) THEN out(t.res)
        ELSE IF ~IsOk(direct) THEN out(direct)
        ELSE IF direct.val # << >>
          THEN out(Ok(ApfsFileRecord(fs_index, inode_query, direct.val[1])))
        ELSE IF ~IsOk(byPriv) THEN out(byPriv)
        ELSE IF byPriv.val # << >> /\ ~IsOk(second) THEN out(second)
        ELSE IF byPriv.val # << >> /\ second.val # << >>
          THEN out(Ok(ApfsFileRecord(fs_index, byPriv.val[1], second.val[1])))
        ELSE out(Err("inode not found"))

\* Filesystem::get_file for ApfsFs
get_file(ad, file_id) ==
    LET u == unpack_identifier(file_id)
        known == u # << >> /\ volume_by_index(u[1]) # << >>
        fs_index == IF known THEN u[1] ELSE volume.fs_index
        inode_query == IF known THEN u[2] ELSE file_id
        t == get_fstree(ad.cache, fs_index)
        out(r) == [res |-> r, cache |-> t.cache, pos |-> ad.pos, reads |-> << >>]
        direct == inode_by_id(t.res.val, inode_query)
        byPriv == inode_id_by_private_id(t.res.val, inode_query)
        second == inode_by_id(t.res.val, byPriv.val[1])
    IN  IF ~IsOk(t.res) THEN out(t.res)
        ELSE IF ~IsOk(direct) THEN out(direct)
        ELSE IF direct.val # << >>
          THEN out(Ok(ApfsFileRecord(fs_index, inode_query, direct.val[1])))
        ELSE IF ~IsOk(byPriv) THEN out(byPriv)
        ELSE IF byPriv.val # << >> /\ ~IsOk(second) THEN out(second)
        ELSE IF byPriv.val # << >> /\ second.val # << >>
          THEN out(Ok(ApfsFileRecord(fs_index, byPriv.val[1], second.val[1])))
        ELSE out(Err("inode not found"))

\* an ApfsDirectoryEntry
ApfsDirectoryEntry(fs_index, inode_id, name) ==
    [fs_index |-> fs_index, inode_id |-> inode_id, name |-> name]

\* DirectoryCommon::file_id for ApfsDirectoryEntry
file_id(e) == e.inode_id

\* lines 388-400: drop the entries without an inode id, keep the order
RECURSIVE FilterMapEntries(_, _)
FilterMapEntries(entries, fs_index) ==
    IF entries = << >> THEN << >>
    ELSE IF Head(entries).inode_id = None
      THEN FilterMapEntries(Tail(entries), fs_index)
    ELSE <<ApfsDirectoryEntry(fs_index, Head(entries).inode_id, Head(entries).name)>>
         \o FilterMapEntries(Tail(entries), fs_index)

\* Filesystem::list_dir for ApfsFs
list_dir(ad, inode) ==
    LET t == get_fstree(ad.cache, inode.fs_index)
        out(r) == [res |-> r, cache |-> t.cache, pos |-> ad.pos, reads |-> << >>]
        entries == dir_children(t.res.val, inode.inode_id)
    IN  IF ~is_dir(inode)
          THEN [res |-> Err("not a directory"), cache |-> ad.cache,
                pos |-> ad.pos, reads |-> << >>]
        ELSE IF ~IsOk(t.res) THEN out(t.res)
        ELSE IF ~IsOk(entries) THEN out(entries)
        ELSE out(Ok(FilterMapEntries(entries.val, inode.fs_index)))

---------------------------------------------------------------------------
(* The files and the arguments the reads are run on *)

\* largest logical address of a generated extent
MaxLogical == 2

\* largest length of a generated extent
MaxExtLen == 2

\* largest offset of the generated calls (besides the large ones)
MaxOffset == 5

\* largest length of the generated calls (besides the large ones)
MaxLength == 3

\* the generated extents that lie in physical block p
GeneratedExtents(p) ==
    {Extent(l, p, n) : l \in 0..MaxLogical, n \in 1..MaxExtLen}

\* no extent, one extent, or two extents in distinct physical blocks, in
\* either order: with and without holes and overlaps
GeneratedMaps ==
    {<< >>} \cup {<<a>> : a \in GeneratedExtents(3)}
            \cup {<<a, b>> : a \in GeneratedExtents(3), b \in GeneratedExtents(5)}
            \cup {<<b, a>> : a \in GeneratedExtents(3), b \in GeneratedExtents(5)}

\* regular files with every generated extent list, declared shorter and
\* longer than the extents reach
GeneratedProbes ==
    {[inode |-> Inode("reg", d, 0, 0), ext |-> m] : d \in {1, 5}, m \in GeneratedMaps}

\* the holed file of the specification's scenario, a directory, a file read
\* through its private id, files beyond the read cap and at the end of the
\* u64 range, and extents that cannot be read
CuratedProbes ==
    { [inode |-> Inode("reg", 6, 0, 0), ext |-> <<Extent(0, 5, 2), Extent(4, 9, 2)>>],
      [inode |-> Inode("reg", 6, 0, 0), ext |-> <<Extent(4, 9, 2), Extent(0, 5, 2)>>],
      [inode |-> Inode("dir", None, 0, 0), ext |-> << >>],
      [inode |-> Inode("dir", 3, 0, 0), ext |-> <<Extent(0, 3, 2)>>],
      [inode |-> Inode("reg", None, 1, 9), ext |-> << >>],
      [inode |-> Inode("reg", None, 3, 0), ext |-> <<Extent(1, 3, 1)>>],
      [inode |-> Inode("reg", 2 * MAX_READ_BYTES, 0, 0), ext |-> << >>],
      [inode |-> Inode("reg", 2 * MAX_READ_BYTES, 0, 0),
       ext |-> <<Extent(0, 1, 2 * MAX_READ_BYTES)>>],
      [inode |-> Inode("reg", MAX_READ_BYTES, 0, 0), ext |-> <<Extent(0, 2, MAX_READ_BYTES)>>],
      [inode |-> Inode("reg", MAX_READ_BYTES, 0, 0), ext |-> <<Extent(MAX_READ_BYTES, 2, 1)>>],
      [inode |-> Inode("reg", U64_MAX, 0, 0), ext |-> << >>],
      [inode |-> Inode("reg", 1, 0, 0), ext |-> <<Extent(U64_MAX - 1, 3, 3)>>],
      [inode |-> Inode("reg", 4, 0, 0), ext |-> <<Extent(0, U64_MAX, 2)>>],
      [inode |-> Inode("reg", 4, 0, 0), ext |-> <<Extent(0, U64_MAX \div BlockSize, 4)>>],
      [inode |-> Inode("reg", 4, 0, 0), ext |-> <<Extent(0, 3, 2), Extent(2, DiskLen \div BlockSize, 2)>>] }

Probes == GeneratedProbes \cup CuratedProbes

LargeArgs == {MAX_READ_BYTES, 2 * MAX_READ_BYTES, U64_MAX - MAX_READ_BYTES,
              U64_MAX - 1, U64_MAX}

Args ==
    {[offset |-> o, length |-> l] : o \in 0..MaxOffset, l \in 0..MaxLength \cup {U64_MAX}}

CuratedArgs ==
    {[offset |-> o, length |-> l] : o \in LargeArgs, l \in 0..MaxLength \cup LargeArgs}
    \cup {[offset |-> o, length |-> l] : o \in 0..MaxOffset, l \in LargeArgs}

---------------------------------------------------------------------------
(* The filesystems behind the generic Filesystem interface *)

\* a directory entry of a generic filesystem: file_id() and name()
GenEntry(id, name) == [file_id |-> id, name |-> name]

\* a record of a generic filesystem: whether get_file finds it, is_dir(),
\* and what list_dir returns for it
GenNode(found, dir, listing) == [found |-> found, is_dir |-> dir, listing |-> listing]

\* three filesystems: a POSIX-like one with a hard link, a cycle, a record
\* that cannot be fetched and a directory that cannot be listed; an NT one
\* whose root lists itself; one whose root cannot be fetched
GenericFilesystems ==
    { [sep |-> "/", root |-> 2, nodes |->
         (2 :> GenNode(TRUE, TRUE,
                  Ok(<<GenEntry(11, "a"), GenEntry(12, "b"), GenEntry(13, "c")>>))) @@
         (11 :> GenNode(TRUE, TRUE,
                  Ok(<<GenEntry(12, "b2"), GenEntry(2, "up"), GenEntry(14, "x")>>))) @@
         (12 :> GenNode(TRUE, FALSE, Err("not a directory"))) @@
         (13 :> GenNode(FALSE, FALSE, Err("not a directory"))) @@
         (14 :> GenNode(TRUE, TRUE, Err("unreadable directory")))],
      [sep |-> "\\", root |-> 5, nodes |->
         (5 :> GenNode(TRUE, TRUE, Ok(<<GenEntry(5, "."), GenEntry(20, "d")>>))) @@
         (20 :> GenNode(TRUE, TRUE, Ok(<<GenEntry(21, "f"), GenEntry(21, "g")>>))) @@
         (21 :> GenNode(TRUE, FALSE, Err("not a directory")))],
      [sep |-> "/", root |-> 2, nodes |->
         (2 :> GenNode(FALSE, TRUE, Ok(<< >>)))] }

\* Filesystem::get_file of the generic filesystem
gen_get_file(fs, id) ==
    IF id \in DOMAIN fs.nodes /\ fs.nodes[id].found
      THEN Ok([id |-> id, is_dir |-> fs.nodes[id].is_dir])
      ELSE Err("record not found")

\* Filesystem::list_dir of the generic filesystem
gen_list_dir(fs, rec) == fs.nodes[rec.id].listing

\* the filesystem of the runs that do not enumerate one
DefaultGfs == [sep |-> "/", root |-> 2, nodes |-> (2 :> GenNode(FALSE, TRUE, Ok(<< >>)))]

\* detect_filesystem has not been called
NoDetected == [image |-> << >>, variant |-> "none", calls |-> << >>]

\* no FsFileReadSeek has been created
NoStream ==
    [file |-> << >>, len |-> 0, pos |-> 0, cache |-> << >>, cache_start |-> 0,
     calls |-> 0]

\* no enumeration is in progress
NoWalk == [kind |-> "none", status |-> "idle", vols |-> << >>, cur |-> 0,
           visited |-> {}, queue |-> << >>, out |-> << >>]

---------------------------------------------------------------------------
(* The adapter as a state machine *)

NoCall == [op |-> "none", file |-> << >>, offset |-> 0, length |-> 0,
           res |-> Ok(<< >>), reads |-> << >>]

Adapter == [cache |-> cached_trees, pos |-> body_pos]

\* the fields of the adapter after ApfsFs::new(container)
Constructed ==
    /\ IsOk(ApfsNew(container))
    /\ valid_volumes = ApfsNew(container).val.valid_volumes
    /\ volume = ApfsNew(container).val.volume
    /\ root_inode_id = ApfsNew(container).val.root_inode_id
    /\ cached_trees = << >>
    /\ body_pos = 0
    /\ last = NoCall
    /\ walk = NoWalk
    /\ detected = NoDetected
    /\ stream = NoStream

\* a call returns: the adapter's cache and the cursor are what the call left
Return(op, file, offset, length, r) ==
    /\ last.res.kind # "abort"
    /\ cached_trees' = r.cache
    /\ body_pos' = r.pos
    /\ last' = [op |-> op, file |-> file, offset |-> offset, length |-> length,
                res |-> r.res, reads |-> r.reads]
    /\ UNCHANGED <<container, probe, overflow_checks, valid_volumes, volume,
                   root_inode_id, arg, gfs, walk,
                   detected, stream>>

ReadFileSlice(file, offset, length) ==
    Return("read_file_slice", file, offset, length,
           read_file_slice(Adapter, file, offset, length))

ReadFilePrefix(file, length) ==
    Return("read_file_prefix", file, 0, length,
           read_file_prefix(Adapter, file, length))

ReadFileContent(file) ==
    Return("read_file_content", file, 0, 0, read_file_content(Adapter, file))

\* the record get_file returns for the file under test
ProbeRecord == get_file(Adapter, ProbeId).res.val

\* the container whose volume 0 holds the file under test
ProbeContainer ==
    <<Volume(1, "second", TRUE, 2), Volume(0, "main", TRUE, 2),
      Volume(2, "none", FALSE, None)>>

InitRead ==
    /\ container = ProbeContainer
    /\ \/ probe \in Probes /\ arg \in Args
       \/ probe \in CuratedProbes /\ arg \in CuratedArgs
    /\ overflow_checks \in BOOLEAN
    /\ gfs = DefaultGfs
    /\ Constructed

SliceProbe == ReadFileSlice(ProbeRecord, arg.offset, arg.length)

PrefixProbe == ReadFilePrefix(ProbeRecord, arg.length)

ContentProbe == ReadFileContent(ProbeRecord)

NextRead == SliceProbe \/ PrefixProbe \/ ContentProbe

SpecRead == InitRead /\ [][NextRead]_vars

---------------------------------------------------------------------------
(* Properties of the content reads (SpecRead) *)

\* the tree of a valid volume, as the adapter opens it
FstOf(fs_index) == get_fstree(cached_trees, fs_index).res.val

\* the effective size of a record
EffSize(file) == effective_size(file, FstOf(file.fs_index))

\* an error the read surfaces from the byte source or from an extent whose
\* physical offset does not fit: not a failure of the read's own arithmetic
SourceError(r) ==
    /\ r.kind = "err"
    /\ r.msg \in {"failed to fill whole buffer", "physical offset overflow"}

\* C1: for a non-directory record with effective size S, every offset
\* o <= S and every length l, read_file_slice succeeds and returns exactly
\* min(l, S - o, MAX_READ_BYTES) bytes (unless an extent of the file cannot
\* be read from the byte source, which is surfaced as an error).
C1_SliceLength ==
    (/\ last.op = "read_file_slice"
     /\ ~is_dir(last.file)
     /\ last.offset <= EffSize(last.file)
     /\ ~SourceError(last.res))
    => /\ IsOk(last.res)
       /\ Len(last.res.val) =
            Min(Min(last.length, EffSize(last.file) - last.offset), MAX_READ_BYTES)

\* what read_file_content returns for the record of the last call
ContentOfLast == read_file_content(Adapter, last.file).res

\* C2: for a non-directory file of (effective) size S <= MAX_READ_BYTES,
\* every offset o <= S and every length l, read_file_slice(f, o, l) is the
\* sub-range [o, o + min(l, S - o)) of what read_file_content(f) returns,
\* whatever the extent list (holes, overlaps, any order).
C2_SliceIsSubrange ==
    (/\ last.op = "read_file_slice"
     /\ ~is_dir(last.file)
     /\ EffSize(last.file) <= MAX_READ_BYTES
     /\ last.offset <= EffSize(last.file)
     /\ IsOk(ContentOfLast))
    => /\ IsOk(last.res)
       /\ last.res.val =
            SubSeq(ContentOfLast.val, last.offset + 1,
                   last.offset + Min(last.length, EffSize(last.file) - last.offset))

\* a slice that starts inside the file and holds both data and a hole, of a
\* file whose two extents are listed in descending order
C2_Witness ==
    /\ last.op = "read_file_slice"
    /\ IsOk(last.res)
    /\ last.offset > 0
    /\ \E i, j \in DOMAIN last.res.val : last.res.val[i] = 0 /\ last.res.val[j] # 0
    /\ Len(probe.ext) = 2
    /\ probe.ext[1].logical_addr > probe.ext[2].logical_addr

\* C3 as stated: read_file_prefix(f, size(f)), with size(f) the size the
\* record reports through FileCommon::size, returns what read_file_content(f)
\* returns, when size(f) <= MAX_READ_BYTES.
C3_PrefixOfDeclaredSize ==
    (/\ last.op = "read_file_prefix"
     /\ last.length = size(last.file)
     /\ size(last.file) <= MAX_READ_BYTES)
    => last.res = ContentOfLast

\* C3 amended: read_file_prefix(f, S), with S the effective size of f (the
\* larger of FileCommon::size and the reach of its extents), returns what
\* read_file_content(f) returns, when S <= MAX_READ_BYTES.
C3_PrefixOfEffectiveSize ==
    (/\ last.op = "read_file_prefix"
     /\ last.length = EffSize(last.file)
     /\ EffSize(last.file) <= MAX_READ_BYTES)
    => last.res = ContentOfLast

\* a prefix of the effective size, read from a file whose extents reach
\* beyond the size it declares
C3_Witness ==
    /\ last.op = "read_file_prefix"
    /\ last.length = EffSize(last.file)
    /\ size(last.file) < EffSize(last.file)
    /\ IsOk(last.res)
    /\ Len(last.res.val) = EffSize(last.file)
    /\ \E i \in DOMAIN last.res.val : last.res.val[i] # 0

\* the extents of a list cover pairwise disjoint logical ranges
Disjoint(ext) ==
    \A j, k \in DOMAIN ext :
        j # k => \/ ext[j].logical_addr + ext[j].length_bytes <= ext[k].logical_addr
                 \/ ext[k].logical_addr + ext[k].length_bytes <= ext[j].logical_addr

\* the file of the specification's hole scenario: two extents of one block
\* each around a hole of one block
HoleExtents == <<Extent(0, 5, BlockSize), Extent(2 * BlockSize, 9, BlockSize)>>

\* C7: in the bytes a content read returns for [O, end), of a file whose
\* extents are disjoint, a byte at a logical offset no extent covers is zero
\* and a byte at logical offset p that extent e covers is the byte of the
\* source at e.phys_block_num * block_size + (p - e.logical_addr); the file
\* with extents {0, 5, bs} and {2 bs, 9, bs} and size 3 bs reads as 3 bs
\* bytes with [bs, 2 bs) zero.
C7_HolesAreZero ==
    /\ (/\ last.op \in {"read_file_slice", "read_file_prefix", "read_file_content"}
        /\ IsOk(last.res)
        /\ Disjoint(ReadExtents(last.file, FstOf(last.file.fs_index))))
       => LET ext == ReadExtents(last.file, FstOf(last.file.fs_index))
          IN  \A i \in DOMAIN last.res.val :
                LET p == last.offset + i - 1
                    cover == {k \in DOMAIN ext :
                                /\ ext[k].logical_addr <= p
                                /\ p < ext[k].logical_addr + ext[k].length_bytes}
                IN  /\ cover = {} => last.res.val[i] = 0
                    /\ \A k \in cover :
                         last.res.val[i] =
                           BodyByte(ext[k].phys_block_num * BlockSize
                                    + (p - ext[k].logical_addr))
    /\ (/\ last.op = "read_file_content"
        /\ probe.ext = HoleExtents
        /\ size(last.file) = 3 * BlockSize
        /\ ~is_dir(last.file))
       => last.res =
            Ok([i \in 1..(3 * BlockSize) |->
                  IF i <= BlockSize THEN BodyByte(5 * BlockSize + i - 1)
                  ELSE IF i <= 2 * BlockSize THEN 0
                  ELSE BodyByte(9 * BlockSize + i - 2 * BlockSize - 1)])

\* the whole content of the scenario's file has been read
C7_Witness ==
    /\ last.op = "read_file_content"
    /\ probe.ext = HoleExtents
    /\ IsOk(last.res)
    /\ Len(last.res.val) = 3 * BlockSize

\* C8: read_file_content of a file whose effective size exceeds
\* MAX_READ_BYTES fails with the size-cap error and reads nothing from the
\* byte source.
C8_ContentRefusesOverCap ==
    (/\ last.op = "read_file_content"
     /\ EffSize(last.file) > MAX_READ_BYTES)
    => /\ last.res = Err("refusing to allocate (cap)")
       /\ last.reads = << >>

\* a whole-file read of a file of twice the cap that has an extent to read
C8_Witness ==
    /\ last.op = "read_file_content"
    /\ EffSize(last.file) = 2 * MAX_READ_BYTES
    /\ probe.ext # << >>
    /\ last.res.kind = "err"

\* C9: a slice read never returns more than MAX_READ_BYTES bytes, and on a
\* file of size 2 * MAX_READ_BYTES (1 GiB) the slice at offset 0 of length
\* 2 * MAX_READ_BYTES is exactly MAX_READ_BYTES bytes long.
C9_SliceCapped ==
    /\ (last.op = "read_file_slice" /\ IsOk(last.res))
       => Len(last.res.val) <= MAX_READ_BYTES
    /\ (/\ last.op = "read_file_slice"
        /\ ~is_dir(last.file)
        /\ size(last.file) = 2 * MAX_READ_BYTES
        /\ last.offset = 0
        /\ last.length = 2 * MAX_READ_BYTES
        /\ ~SourceError(last.res))
       => /\ IsOk(last.res)
          /\ Len(last.res.val) = MAX_READ_BYTES

\* the 1 GiB slice of the 1 GiB file returned 512 MiB of data
C9_Witness ==
    /\ last.op = "read_file_slice"
    /\ size(last.file) = 2 * MAX_READ_BYTES
    /\ last.offset = 0
    /\ last.length = 2 * MAX_READ_BYTES
    /\ IsOk(last.res)
    /\ Len(last.res.val) = MAX_READ_BYTES
    /\ \E i \in DOMAIN last.res.val : last.res.val[i] # 0

\* the content reads
ContentReads == {"read_file_slice", "read_file_prefix", "read_file_content"}

\* the number of bytes the last content read asks read_file_slice_with_size
\* for
RequestedLength ==
    CASE last.op = "read_file_slice" -> last.length
      [] last.op = "read_file_prefix" -> Min(last.length, EffSize(last.file))
      [] OTHER -> EffSize(last.file)

---------------------------------------------------------------------------
(* NT records: the timestamp normalisation of record_to_file *)

\* 10_000_000, the divisor of filetime_to_unix_secs.  A FILETIME does not
\* fit TLC's integers: it is held as three digits hi, mid, lo in this base
\* (hi * 10^14 + mid * 10^7 + lo) and a count of seconds as two (hi, lo).
FtBase == 10000000

\* 11_644_473_600 = EpochHi * 10^7 + EpochLo, the seconds from 1601 to 1970
EpochHi == 1164
EpochLo == 4473600

\* a FILETIME (u64, 100 ns units since 1601-01-01)
Filetime(hi, mid, lo) == [hi |-> hi, mid |-> mid, lo |-> lo]

\* a u64 count of seconds
Secs(hi, lo) == [hi |-> hi, lo |-> lo]

\* mutant of filetime_to_unix_secs: the epoch shift is left out
filetime_to_unix_secs_NoEpoch(ft) == Secs(ft.hi, ft.mid)

\* filetime_to_unix_secs: (ft / 10_000_000).saturating_sub(11_644_473_600)
filetime_to_unix_secs(ft) ==
    LET q == Secs(ft.hi, ft.mid)
        below == q.hi < EpochHi \/ (q.hi = EpochHi /\ q.lo < EpochLo)
    IN  IF below THEN Secs(0, 0)
        ELSE IF q.lo >= EpochLo THEN Secs(q.hi - EpochHi, q.lo - EpochLo)
        ELSE Secs(q.hi - EpochHi - 1, q.lo + FtBase - EpochLo)

\* the three timestamps of a $STANDARD_INFORMATION or $FILE_NAME attribute
NtTimes(c, m, a) == [created |-> c, mft_modified |-> m, accessed |-> a]

\* an MFTRecord as record_to_file reads it: the parsed $STANDARD_INFORMATION
\* (if any) and the $FILE_NAME attributes
MFTRecord(si, file_names) == [si |-> si, file_names |-> file_names]

\* (ft != 0).then(|| filetime_to_unix_secs(ft)): Some(secs) or None
ThenSecs(ft) ==
    IF ft = Filetime(0, 0, 0) THEN << >> ELSE <<filetime_to_unix_secs(ft)>>

\* Filesystem::record_to_file for NTFS: the normalized timestamps
nt_record_to_file(record) ==
    LET t == IF record.si # << >> THEN record.si[1]
             ELSE IF record.file_names # << >> THEN record.file_names[1]
             ELSE NtTimes(Filetime(0, 0, 0), Filetime(0, 0, 0), Filetime(0, 0, 0))
    IN  [created |-> ThenSecs(t.created),
         modified |-> ThenSecs(t.mft_modified),
         accessed |-> ThenSecs(t.accessed)]

\* mft_modified = 132514560000000000 of the specification's scenario
ScenarioFiletime == Filetime(1325, 1456000, 0)

\* FILETIMEs around zero, the Unix epoch, the scenario and u64::MAX
Filetimes ==
    {Filetime(h, m, l) : h \in {0, EpochHi, EpochHi + 1, 1325},
                         m \in {0, EpochLo - 1, EpochLo, EpochLo + 1, 1456000, FtBase - 1},
                         l \in {0, 1, FtBase - 1}}
    \cup {Filetime(1844674, 4073709, 9551615)}

NtRecords ==
    {MFTRecord(<<NtTimes(Filetime(0, 0, 0), m, ScenarioFiletime)>>, << >>) : m \in Filetimes}
    \cup {MFTRecord(<< >>, <<NtTimes(ScenarioFiletime, m, Filetime(0, 0, 0))>>) : m \in Filetimes}
    \cup {MFTRecord(<<NtTimes(ScenarioFiletime, m, m)>>,
                    <<NtTimes(m, Filetime(0, 0, 1), m)>>) : m \in Filetimes}
    \cup {MFTRecord(<< >>, << >>)}

---------------------------------------------------------------------------
(* The pure conversions as a state machine (SpecPure) *)

\* the file under test of the runs that are not about one file
DefaultProbe == [inode |-> Inode("reg", 2, 0, 0), ext |-> <<Extent(0, 3, 2)>>]

\* the (fs_index, inode_id) pairs packed: every volume index of a byte and
\* the first ones beyond, every inode id of the mask and beyond
IdentArgs ==
    {[kind |-> "ident", fs_index |-> f, inode_id |-> i] :
        f \in 0..(Pow2(FsBits) + 1), i \in 0..(2 * PACKED_INODE_MASK + 3)}

NtArgs == {[kind |-> "nt", record |-> r] : r \in NtRecords}

InitPure ==
    /\ container = ProbeContainer
    /\ probe = DefaultProbe
    /\ overflow_checks = FALSE
    /\ arg \in IdentArgs \cup NtArgs
    /\ gfs = DefaultGfs
    /\ Constructed

PureReturn(op, input, r) ==
    /\ last' = [op |-> op, input |-> input, res |-> r]
    /\ UNCHANGED <<container, probe, overflow_checks, valid_volumes, volume,
                   root_inode_id, cached_trees, body_pos, arg, gfs, walk,
                   detected, stream>>

PackIdentifier ==
    /\ arg.kind = "ident"
    /\ last.op = "none"
    /\ PureReturn("pack_identifier", <<arg.fs_index, arg.inode_id>>,
                  Ok(pack_identifier(arg.fs_index, arg.inode_id)))

UnpackIdentifier ==
    /\ last.op = "pack_identifier"
    /\ PureReturn("unpack_identifier", last.res.val, Ok(unpack_identifier(last.res.val)))

NtRecordToFile ==
    /\ arg.kind = "nt"
    /\ last.op = "none"
    /\ PureReturn("record_to_file", arg.record, Ok(nt_record_to_file(arg.record)))

NextPure == PackIdentifier \/ UnpackIdentifier \/ NtRecordToFile

SpecPure == InitPure /\ [][NextPure]_vars

---------------------------------------------------------------------------
(* Properties of the conversions (SpecPure) *)

\* C5: unpack_identifier(pack_identifier(fs, id)) = Some((fs, id)) for every
\* fs in 1..255 and every id in 1..PACKED_INODE_MASK; unpack_identifier
\* returns None whenever the high byte or the low inode bits of its argument
\* are zero, in particular for pack_identifier(0, id).
C5_PackUnpack ==
    last.op = "unpack_identifier" =>
      /\ (/\ arg.fs_index \in 1..(Pow2(FsBits) - 1)
          /\ arg.inode_id \in 1..PACKED_INODE_MASK)
         => last.res.val = <<arg.fs_index, arg.inode_id>>
      /\ (\/ last.input \div Pow2(InodeBits) = 0
          \/ last.input % Pow2(InodeBits) = 0)
         => last.res.val = << >>
      /\ arg.fs_index = 0 => last.res.val = << >>

\* the largest volume index and the largest inode id came back
C5_Witness ==
    /\ last.op = "unpack_identifier"
    /\ arg.fs_index = Pow2(FsBits) - 1
    /\ arg.inode_id = PACKED_INODE_MASK
    /\ last.input = U64_MAX
    /\ last.res.val = <<arg.fs_index, arg.inode_id>>

\* the sum of two counts of seconds
AddSecs(a, b) ==
    IF a.lo + b.lo >= FtBase THEN Secs(a.hi + b.hi + 1, a.lo + b.lo - FtBase)
    ELSE Secs(a.hi + b.hi, a.lo + b.lo)

\* the record's $STANDARD_INFORMATION carries the scenario's mft_modified
ScenarioRecord ==
    /\ last.op = "record_to_file"
    /\ last.input.si # << >>
    /\ last.input.si[1].mft_modified = ScenarioFiletime

\* C10 as stated: mft_modified = 132514560000000000 in $STANDARD_INFORMATION
\* is normalized to modified = Unix second 1606867200.
C10_ScenarioAsStated ==
    ScenarioRecord => last.res.val.modified = <<Secs(160, 6867200)>>

\* C10 amended: mft_modified = 132514560000000000 in $STANDARD_INFORMATION
\* is normalized to modified = Unix second 1606982400; for every record with
\* a $STANDARD_INFORMATION whose mft_modified ft is not zero, modified is
\* floor(ft / 10,000,000) - 11,644,473,600, and 0 where that is negative.
C10_Normalized ==
    /\ ScenarioRecord => last.res.val.modified = <<Secs(160, 6982400)>>
    /\ (/\ last.op = "record_to_file"
        /\ last.input.si # << >>
        /\ last.input.si[1].mft_modified # Filetime(0, 0, 0))
       => LET ft == last.input.si[1].mft_modified
              epoch == Secs(EpochHi, EpochLo)
              before == ft.hi < EpochHi \/ (ft.hi = EpochHi /\ ft.mid < EpochLo)
          IN  /\ Len(last.res.val.modified) = 1
              /\ before => last.res.val.modified[1] = Secs(0, 0)
              /\ ~before =>
                   AddSecs(last.res.val.modified[1], epoch) = Secs(ft.hi, ft.mid)

\* the scenario's record has been normalized, to 1606982400
C10_Witness ==
    /\ ScenarioRecord
    /\ last.res.val.modified = <<Secs(160, 6982400)>>

---------------------------------------------------------------------------
(* The adapter's lookups as a state machine (SpecApfs) *)

\* largest volume index of an identifier passed to get_file
MaxFsIndex == 3

\* largest inode id of an identifier passed to get_file
MaxInodeId == 9

\* the identifiers passed to get_file: bare inode ids and packed ones
FileIds == {pack_identifier(f, i) : f \in 0..MaxFsIndex, i \in 0..MaxInodeId}

NoArg == [offset |-> 0, length |-> 0]

InitApfs ==
    /\ container \in Containers
    /\ probe = DefaultProbe
    /\ overflow_checks = FALSE
    /\ arg = NoArg
    /\ gfs = DefaultGfs
    /\ Constructed

GetFile(id) ==
    Return("get_file", << >>, id, 0, get_file(Adapter, id))

ListDir(inode) ==
    Return("list_dir", inode, 0, 0, list_dir(Adapter, inode))

\* get_file on an identifier the caller chooses
GetFileById == \E id \in FileIds : GetFile(id)

\* list_dir on the record the last get_file returned
ListDirOfRecord ==
    /\ last.op \in {"get_file", "get_file_of_entry"}
    /\ IsOk(last.res)
    /\ ListDir(last.res.val)

\* get_file on the identifier of an entry the last list_dir returned; the
\* directory and the entry are kept with the call
GetFileOfEntry ==
    /\ last.op = "list_dir"
    /\ IsOk(last.res)
    /\ \E k \in DOMAIN last.res.val :
         Return("get_file_of_entry", [dir |-> last.file, entry |-> last.res.val[k]],
                file_id(last.res.val[k]), 0,
                get_file(Adapter, file_id(last.res.val[k])))

\* read_file_content on the record the last get_file returned
ContentOfRecord ==
    /\ last.op \in {"get_file", "get_file_of_entry"}
    /\ IsOk(last.res)
    /\ ReadFileContent(last.res.val)

NextApfs == GetFileById \/ ListDirOfRecord \/ GetFileOfEntry \/ ContentOfRecord

SpecApfs == InitApfs /\ [][NextApfs]_vars

\* C4: every entry e that list_dir(d) returns, for a directory d of any
\* valid volume, has an identifier e.file_id() for which get_file on the
\* same adapter succeeds and returns the record e names: the inode
\* e.inode_id of the volume of d (where that volume holds such an inode).
C4_EntriesResolve ==
    (/\ last.op = "get_file_of_entry"
     /\ last.file.entry.inode_id \in DOMAIN TreeInodes(FstOf(last.file.dir.fs_index)))
    => /\ IsOk(last.res)
       /\ last.res.val =
            ApfsFileRecord(last.file.dir.fs_index, last.file.entry.inode_id,
                           TreeInodes(FstOf(last.file.dir.fs_index))[last.file.entry.inode_id])

\* the tree of the valid volume with index i
TreeOfVolume(i) == volume_by_index(i)[1].root_tree_oid

\* C20: get_file(id) searches volume fs for inode when id unpacks to
\* (fs, inode), both non-zero, and fs is a valid volume; otherwise it
\* searches the selected volume for id itself.  The record it returns
\* carries the fs_index of the volume searched; when neither the direct
\* lookup nor the lookup by private id finds an inode it fails with
\* "inode not found".
C20_GetFileVolume ==
    (last.op \in {"get_file", "get_file_of_entry"})
    => LET id == last.offset
           fs == id \div Pow2(InodeBits)
           ino == id % Pow2(InodeBits)
           packed == fs # 0 /\ ino # 0 /\ volume_by_index(fs) # << >>
           searched == IF packed THEN fs ELSE volume.fs_index
           query == IF packed THEN ino ELSE id
           inodes == TreeInodes(TreeOfVolume(searched))
           byPriv == inode_id_by_private_id(TreeOfVolume(searched), query).val
       IN  IF ~IsOk(inode_by_id(TreeOfVolume(searched), query)) THEN ~IsOk(last.res)
           ELSE IF query \in DOMAIN inodes
             THEN last.res = Ok(ApfsFileRecord(searched, query, inodes[query]))
           ELSE IF byPriv # << >>
             THEN last.res = Ok(ApfsFileRecord(searched, byPriv[1], inodes[byPriv[1]]))
           ELSE last.res = Err("inode not found")

\* a packed identifier of a volume that is not valid was looked up, whole,
\* in the selected volume, and found there
C20_Witness ==
    /\ last.op = "get_file"
    /\ last.offset \div Pow2(InodeBits) # 0
    /\ last.offset % Pow2(InodeBits) # 0
    /\ volume_by_index(last.offset \div Pow2(InodeBits)) = << >>
    /\ IsOk(last.res)
    /\ last.res.val.fs_index = volume.fs_index
    /\ last.res.val.inode_id = last.offset

---------------------------------------------------------------------------
(* The enumerations: ApfsFs::walk_fs and the generic enumerate_collect *)

\* the normalised File a walk emits (identifier, path, kind and size)
NormalizedFile(identifier, absolute_path, ftype, fsize) ==
    [identifier |-> identifier, absolute_path |-> absolute_path,
     ftype |-> ftype, size |-> fsize]

\* ApfsFs::record_to_file
record_to_file(file, id, absolute_path) ==
    NormalizedFile(id, absolute_path, file.inode.mode, size(file))

\* record_to_file of the other drivers: identifier is the id handed in
gen_record_to_file(rec, id, absolute_path) ==
    NormalizedFile(id, absolute_path,
                   IF rec.is_dir THEN "Directory" ELSE "File", 0)

\* an element of a walk's queue
QueueItem(id, path) == [id |-> id, path |-> path]

\* mutant of VolPrefix: the prefix does not name the volume
VolPrefix_NoIndex(vol) == "/volume_"

\* format!("/volume_{}", vol.fs_index)
VolPrefix(vol) == "/volume_" \o ToString(vol.fs_index)

\* lines 149-159: the queue items of a directory's children, entries
\* without an inode id left out
RECURSIVE ApfsChildItems(_, _, _)
ApfsChildItems(children, path, vol_prefix) ==
    IF children = << >> THEN << >>
    ELSE LET de == Head(children)
             child_path == IF path = vol_prefix
                             THEN vol_prefix \o "/" \o de.name
                             ELSE path \o "/" \o de.name
             rest == ApfsChildItems(Tail(children), path, vol_prefix)
         IN  IF de.inode_id = None THEN rest
             ELSE <<QueueItem(de.inode_id, child_path)>> \o rest

\* main.rs lines 278-287: the queue items of a directory's entries
RECURSIVE GenChildItems(_, _, _)
GenChildItems(entries, path, sep) ==
    IF entries = << >> THEN << >>
    ELSE LET de == Head(entries)
             child_path == IF path = sep THEN sep \o de.name
                           ELSE path \o sep \o de.name
         IN  <<QueueItem(de.file_id, child_path)>>
               \o GenChildItems(Tail(entries), path, sep)

\* mutant of WalkFsIteration: an id is expanded every time it is popped
WalkFsIteration_NoVisited(w, cache, vol) ==
    LET item == Head(w.queue)
        popped == [w EXCEPT !.queue = Tail(w.queue)]
        seen == [popped EXCEPT !.visited = w.visited \cup {item.id}]
        t == get_fstree(cache, vol.fs_index)
        inode == inode_by_id(t.res.val, item.id)
        rec == ApfsFileRecord(vol.fs_index, item.id, inode.val[1])
        packed_id == pack_identifier(vol.fs_index, item.id)
        emitted == [seen EXCEPT !.out =
                      Append(w.out, record_to_file(rec, packed_id, item.path))]
        children == dir_children(t.res.val, item.id)
        go(x) == [walk |-> x, cache |-> t.cache, res |-> Ok(<< >>)]
        fail(e) == [walk |-> seen, cache |-> t.cache, res |-> e]
    IN  IF ~IsOk(t.res) THEN fail(t.res)
        ELSE IF ~IsOk(inode) THEN fail(inode)
        ELSE IF inode.val = << >> THEN go(seen)
        ELSE IF ~is_dir(rec) THEN go(emitted)
        ELSE IF ~IsOk(children) THEN go(emitted)
        ELSE go([emitted EXCEPT !.queue =
                   Tail(w.queue) \o
                   ApfsChildItems(children.val, item.path, VolPrefix(vol))])

\* one iteration of walk_fs's while loop on the walk w of volume vol:
\* the walk it leaves, the tree cache, and an Err that leaves walk_fs
\* through `?`
WalkFsIteration(w, cache, vol) ==
    LET item == Head(w.queue)
        popped == [w EXCEPT !.queue = Tail(w.queue)]
        seen == [popped EXCEPT !.visited = w.visited \cup {item.id}]
        t == get_fstree(cache, vol.fs_index)
        inode == inode_by_id(t.res.val, item.id)
        rec == ApfsFileRecord(vol.fs_index, item.id, inode.val[1])
        packed_id == pack_identifier(vol.fs_index, item.id)
        emitted == [seen EXCEPT !.out =
                      Append(w.out, record_to_file(rec, packed_id, item.path))]
        children == dir_children(t.res.val, item.id)
        go(x) == [walk |-> x, cache |-> t.cache, res |-> Ok(<< >>)]
        fail(e) == [walk |-> seen, cache |-> t.cache, res |-> e]
    IN  IF item.id \in w.visited
          THEN [walk |-> popped, cache |-> cache, res |-> Ok(<< >>)]
        ELSE IF ~IsOk(t.res) THEN fail(t.res)
        ELSE IF ~IsOk(inode) THEN fail(inode)
        ELSE IF inode.val = << >> THEN go(seen)
        ELSE IF ~is_dir(rec) THEN go(emitted)
        ELSE IF ~IsOk(children) THEN go(emitted)
        ELSE go([emitted EXCEPT !.queue =
                   Tail(w.queue) \o
                   ApfsChildItems(children.val, item.path, VolPrefix(vol))])

\* mutant of EnumerateCollectIteration: a record that cannot be fetched
\* ends the walk
EnumerateCollectIteration_AbortOnError(w, fs) ==
    LET item == Head(w.queue)
        popped == [w EXCEPT !.queue = Tail(w.queue)]
        seen == [popped EXCEPT !.visited = w.visited \cup {item.id}]
        file_rec == gen_get_file(fs, item.id)
        emitted == [seen EXCEPT !.out =
                      Append(w.out,
                             gen_record_to_file(file_rec.val, item.id, item.path))]
        entries == gen_list_dir(fs, file_rec.val)
    IN  IF item.id \in w.visited THEN popped
        ELSE IF ~IsOk(file_rec) THEN [seen EXCEPT !.queue = << >>]
        ELSE IF ~file_rec.val.is_dir THEN emitted
        ELSE IF ~IsOk(entries) THEN emitted
        ELSE [emitted EXCEPT !.queue =
                Tail(w.queue) \o GenChildItems(entries.val, item.path, fs.sep)]

\* one iteration of enumerate_collect's while loop on the filesystem fs
EnumerateCollectIteration(w, fs) ==
    LET item == Head(w.queue)
        popped == [w EXCEPT !.queue = Tail(w.queue)]
        seen == [popped EXCEPT !.visited = w.visited \cup {item.id}]
        file_rec == gen_get_file(fs, item.id)
        emitted == [seen EXCEPT !.out =
                      Append(w.out,
                             gen_record_to_file(file_rec.val, item.id, item.path))]
        entries == gen_list_dir(fs, file_rec.val)
    IN  IF item.id \in w.visited THEN popped
        ELSE IF ~IsOk(file_rec) THEN seen
        ELSE IF ~file_rec.val.is_dir THEN emitted
        ELSE IF ~IsOk(entries) THEN emitted
        ELSE [emitted EXCEPT !.queue =
                Tail(w.queue) \o GenChildItems(entries.val, item.path, fs.sep)]

\* a walk returns to its caller
WalkReturn(op, r) ==
    /\ walk' = [walk EXCEPT !.status = "done"]
    /\ last' = [op |-> op, file |-> << >>, offset |-> 0, length |-> 0,
                res |-> r, reads |-> << >>]

\* enumerate_all_files is called: walk_fs clones valid_volumes
ApfsWalkStart ==
    /\ walk.status # "running"
    /\ walk' = [kind |-> "apfs", status |-> "running", vols |-> valid_volumes,
                cur |-> 0, visited |-> {}, queue |-> << >>, out |-> << >>]
    /\ UNCHANGED <<container, probe, overflow_checks, valid_volumes, volume,
                   root_inode_id, cached_trees, body_pos, arg, last, gfs,
                   detected, stream>>

\* the for loop takes the next volume: a fresh visited set and a queue
\* holding the volume's root under its prefix
ApfsWalkVolume ==
    /\ walk.kind = "apfs" /\ walk.status = "running"
    /\ walk.queue = << >> /\ walk.cur < Len(walk.vols)
    /\ LET next == walk.vols[walk.cur + 1]
       IN  walk' = [walk EXCEPT !.cur = walk.cur + 1, !.visited = {},
                      !.queue = <<QueueItem(next[2], VolPrefix(next[1]))>>]
    /\ UNCHANGED <<container, probe, overflow_checks, valid_volumes, volume,
                   root_inode_id, cached_trees, body_pos, arg, last, gfs,
                   detected, stream>>

\* the while loop pops one item; an Err ends enumerate_all_files
ApfsWalkStep ==
    /\ walk.kind = "apfs" /\ walk.status = "running"
    /\ walk.queue # << >>
    /\ LET it == WalkFsIteration(walk, cached_trees, walk.vols[walk.cur][1])
       IN  /\ cached_trees' = it.cache
           /\ IF IsOk(it.res)
                THEN walk' = it.walk /\ UNCHANGED last
                ELSE /\ walk' = [it.walk EXCEPT !.status = "done"]
                     /\ last' = [op |-> "enumerate_all_files", file |-> << >>,
                                 offset |-> 0, length |-> 0, res |-> it.res,
                                 reads |-> << >>]
    /\ UNCHANGED <<container, probe, overflow_checks, valid_volumes, volume,
                   root_inode_id, body_pos, arg, gfs,
                   detected, stream>>

\* every volume is walked: enumerate_all_files returns Ok(out)
ApfsWalkReturn ==
    /\ walk.kind = "apfs" /\ walk.status = "running"
    /\ walk.queue = << >> /\ walk.cur = Len(walk.vols)
    /\ WalkReturn("enumerate_all_files", Ok(walk.out))
    /\ UNCHANGED <<container, probe, overflow_checks, valid_volumes, volume,
                   root_inode_id, cached_trees, body_pos, arg, gfs,
                   detected, stream>>

\* enumerate_collect is called: the queue holds the root under the separator
GenWalkStart ==
    /\ walk.status # "running"
    /\ walk' = [kind |-> "generic", status |-> "running", vols |-> << >>,
                cur |-> 0, visited |-> {},
                queue |-> <<QueueItem(gfs.root, gfs.sep)>>, out |-> << >>]
    /\ UNCHANGED <<container, probe, overflow_checks, valid_volumes, volume,
                   root_inode_id, cached_trees, body_pos, arg, last, gfs,
                   detected, stream>>

\* the while loop pops one item
GenWalkStep ==
    /\ walk.kind = "generic" /\ walk.status = "running"
    /\ walk.queue # << >>
    /\ walk' = EnumerateCollectIteration(walk, gfs)
    /\ UNCHANGED <<container, probe, overflow_checks, valid_volumes, volume,
                   root_inode_id, cached_trees, body_pos, arg, last, gfs,
                   detected, stream>>

\* the queue is empty: enumerate_collect returns Ok(out)
GenWalkReturn ==
    /\ walk.kind = "generic" /\ walk.status = "running"
    /\ walk.queue = << >>
    /\ WalkReturn("enumerate_collect", Ok(walk.out))
    /\ UNCHANGED <<container, probe, overflow_checks, valid_volumes, volume,
                   root_inode_id, cached_trees, body_pos, arg, gfs,
                   detected, stream>>

InitWalk ==
    /\ container \in Containers
    /\ probe = DefaultProbe
    /\ overflow_checks = FALSE
    /\ arg = NoArg
    /\ gfs \in GenericFilesystems
    /\ Constructed

NextWalk ==
    \/ ApfsWalkStart \/ ApfsWalkVolume \/ ApfsWalkStep \/ ApfsWalkReturn
    \/ GenWalkStart \/ GenWalkStep \/ GenWalkReturn

SpecWalk == InitWalk /\ [][NextWalk]_vars

\* no two records of a list carry the same identifier
NoRepeatedIdentifier(files) ==
    \A i, j \in DOMAIN files :
        files[i].identifier = files[j].identifier => i = j

\* C6: in the list enumerate_collect returns and in the list
\* enumerate_all_files returns, no two records carry the same identifier
C6_NoIdentifierTwice ==
    (/\ last.op \in {"enumerate_collect", "enumerate_all_files"}
     /\ IsOk(last.res))
        => NoRepeatedIdentifier(last.res.val)

\* the string s starts with the string p
StartsWith(s, p) == Len(s) >= Len(p) /\ SubSeq(s, 1, Len(p)) = p

\* the volume index a packed identifier carries
FsIndexOf(identifier) == identifier \div Pow2(InodeBits)

\* C12: the APFS walk emits the records of the valid volumes in ascending
\* fs_index order, all records of one volume before any record of the
\* next; every path of volume i is "/volume_i" or starts with
\* "/volume_i/"; when volume 0 is valid the first record emitted has path
\* "/volume_0".
C12_VolumeOrderAndPaths ==
    walk.kind = "apfs"
    => /\ \A j, k \in DOMAIN walk.out :
            j < k => FsIndexOf(walk.out[j].identifier) <= FsIndexOf(walk.out[k].identifier)
       /\ \A k \in DOMAIN walk.out :
            LET prefix == "/volume_" \o ToString(FsIndexOf(walk.out[k].identifier))
            IN  /\ volume_by_index(FsIndexOf(walk.out[k].identifier)) # << >>
                /\ \/ walk.out[k].absolute_path = prefix
                   \/ StartsWith(walk.out[k].absolute_path, prefix \o "/")
       /\ (volume_by_index(0) # << >> /\ walk.out # << >>)
            => walk.out[1].absolute_path = "/volume_0"

\* the walk of a container that lists volume 1 before volume 0 has
\* returned: /volume_0 came first, a nested record of volume 1 later
C12_Witness ==
    /\ last.op = "enumerate_all_files" /\ IsOk(last.res)
    /\ container[1].fs_index = 1
    /\ last.res.val[1].absolute_path = "/volume_0"
    /\ \E k \in DOMAIN last.res.val : last.res.val[k].absolute_path = "/volume_1/d/h"

\* every inode id of the container's trees fits the low bits of a packed
\* identifier
InodeIdsFitMask ==
    \A k \in DOMAIN container :
        \A id \in DOMAIN TreeInodes(container[k].root_tree_oid) :
            id <= PACKED_INODE_MASK

\* enumerate_collect never repeats an identifier, and neither does the APFS
\* walk of a container whose inode ids fit the mask of pack_identifier
WalkIdentifiersDistinctBelowMask ==
    (/\ last.op \in {"enumerate_collect", "enumerate_all_files"}
     /\ IsOk(last.res)
     /\ last.op = "enumerate_all_files" => InodeIdsFitMask)
        => NoRepeatedIdentifier(last.res.val)

\* a walk over a graph with a hard link and a cycle has returned its list
WalkOfLinkedGraphReturned ==
    /\ last.op = "enumerate_collect"
    /\ IsOk(last.res)
    /\ Len(last.res.val) >= 4

---------------------------------------------------------------------------
(* ApfsFs::new on the containers a driver can hand over *)

\* largest fs_index of a generated volume
MaxNewFsIndex == 2

\* largest number of volumes of a generated container
MaxVolumes == 3

\* the generated volumes: healthy, with a tree that does not open, without
\* a root inode, and with a root inode that cannot be read
NewVolumes ==
    {Volume(i, "main", h # "noopen",
            CASE h = "noroot" -> None [] h = "rooterr" -> Unreadable [] OTHER -> 2) :
       i \in 0..MaxNewFsIndex, h \in {"ok", "noopen", "noroot", "rooterr"}}

\* apfs.volumes: every list of at most MaxVolumes generated volumes, in any
\* order, the same fs_index more than once included
NewContainers ==
    UNION {[1..n -> NewVolumes] : n \in 0..MaxVolumes}

\* before ApfsFs::new there is no adapter
InitNew ==
    /\ container \in NewContainers
    /\ probe = DefaultProbe
    /\ overflow_checks = FALSE
    /\ arg = NoArg
    /\ gfs = DefaultGfs
    /\ walk = NoWalk
    /\ valid_volumes = << >>
    /\ volume = << >>
    /\ root_inode_id = 0
    /\ cached_trees = << >>
    /\ body_pos = 0
    /\ last = NoCall
    /\ detected = NoDetected
    /\ stream = NoStream

\* ApfsFs::new(apfs): Ok gives the adapter its fields, Err gives no adapter
ApfsFsNew ==
    /\ last.op = "none"
    /\ LET r == ApfsNew(container)
       IN  /\ IF IsOk(r)
                THEN /\ valid_volumes' = r.val.valid_volumes
                     /\ volume' = r.val.volume
                     /\ root_inode_id' = r.val.root_inode_id
                ELSE UNCHANGED <<valid_volumes, volume, root_inode_id>>
           /\ last' = [op |-> "new", file |-> << >>, offset |-> 0, length |-> 0,
                       res |-> IF IsOk(r) THEN Ok(<< >>) ELSE r, reads |-> << >>]
    /\ UNCHANGED <<container, probe, overflow_checks, cached_trees, body_pos,
                   arg, gfs, walk,
                   detected, stream>>

NextNew == ApfsFsNew

SpecNew == InitNew /\ [][NextNew]_vars

\* a volume validates: its tree opens and a root inode id is detected
Validates(vol) == vol.opens /\ vol.root \notin {None, Unreadable}

\* the detection of a volume's root inode id yields an error
RootDetectionFails(vol) == vol.opens /\ vol.root = Unreadable

\* C18: any failure while validating one candidate volume only skips that
\* volume: construction succeeds whenever at least one candidate volume
\* validates, and fails only when the volume list is empty or no volume
\* survives.
C18_NewToleratesInvalidVolumes ==
    last.op = "new"
    => (IsOk(last.res)
          <=> \E k \in DOMAIN Candidates(container) :
                 Validates(Candidates(container)[k]))

\* what the code keeps of C18: a tree that does not open and an absent
\* root only skip the volume; an error of the root detection ends
\* construction with that error
NewToleratesUnlessRootDetectionFails ==
    last.op = "new"
    => LET cands == Candidates(container)
       IN  IF \E k \in DOMAIN cands : RootDetectionFails(cands[k])
             THEN last.res = Err("cannot read the root inode")
             ELSE IsOk(last.res) <=> \E k \in DOMAIN cands : Validates(cands[k])

\* the first volume of the container that carries fs_index i, if any
FirstWithIndex(i) == FindFsIndex(container, i)

\* C19: after a successful ApfsFs::new the selected volume and root inode
\* id are those of the surviving volume with fs_index 0 if one survived,
\* otherwise of the first entry of valid_volumes; the selected pair is a
\* member of valid_volumes; valid_volumes holds each fs_index at most once,
\* in ascending fs_index order (volume 0 first), and holds exactly the
\* candidate volumes that validate, each with its detected root.
C19_SelectedVolume ==
    (last.op = "new" /\ IsOk(last.res))
    => LET n == Len(valid_volumes)
           zero == {k \in 1..n : valid_volumes[k][1].fs_index = 0}
       IN  /\ n >= 1
           /\ \E k \in 1..n : valid_volumes[k] = <<volume, root_inode_id>>
           /\ IF zero # {}
                THEN volume.fs_index = 0 /\ zero = {1}
                ELSE <<volume, root_inode_id>> = valid_volumes[1]
           /\ \A j, k \in 1..n :
                j < k => valid_volumes[j][1].fs_index < valid_volumes[k][1].fs_index
           /\ \A k \in 1..n :
                /\ Validates(valid_volumes[k][1])
                /\ valid_volumes[k][2] = valid_volumes[k][1].root
                /\ FirstWithIndex(valid_volumes[k][1].fs_index) = <<valid_volumes[k][1]>>
           /\ \A i \in 0..MaxNewFsIndex :
                (FirstWithIndex(i) # << >> /\ Validates(FirstWithIndex(i)[1]))
                  => \E k \in 1..n : valid_volumes[k][1].fs_index = i

\* construction succeeded on a container that lists two surviving volumes
\* in descending fs_index order and no volume 0
C19_Witness ==
    /\ last.op = "new" /\ IsOk(last.res)
    /\ Len(container) >= 2
    /\ container[1].fs_index > container[2].fs_index
    /\ Len(valid_volumes) = 2
    /\ volume.fs_index # 0

---------------------------------------------------------------------------
(* detect_filesystem and the dispatch of DetectedFs *)

\* what detect_filesystem is handed: the offset, whether BodySlice::new
\* succeeds on (body, offset, partition_size), and whether each driver's
\* constructor accepts the bytes; the volumes APFS::new finds are `container`
Image(offset, slice, ext, apfs, exfat, ntfs) ==
    [offset |-> offset, slice |-> slice, ext |-> ext, apfs |-> apfs,
     exfat |-> exfat, ntfs |-> ntfs]

Images ==
    {Image(o, s, e, a, x, n) :
       o \in {0, 2048}, s \in BOOLEAN, e \in BOOLEAN, a \in BOOLEAN,
       x \in BOOLEAN, n \in BOOLEAN}

\* the containers APFS::new can hand to ApfsFs::new, ones that ApfsFs::new
\* refuses included
DetectContainers ==
    Containers \cup
    { << >>, <<Volume(0, "main", FALSE, 2)>>, <<Volume(0, "main", TRUE, Unreadable)>>,
      <<Volume(1, "second", TRUE, None)>> }

\* mutant of detect_filesystem: NT is probed before exFAT
detect_filesystem_NtFirst(image, vols) ==
    LET apfs_fs == ApfsNew(vols)
        out(r, v, c) == [res |-> r, variant |-> v, calls |-> c, adapter |-> apfs_fs]
    IN  IF ~image.slice THEN out(Err("Could not create BodySlice"), "none", << >>)
        ELSE IF image.ext THEN out(Ok(<< >>), "Ext", <<"ExtFS::new">>)
        ELSE IF image.apfs /\ IsOk(apfs_fs)
          THEN out(Ok(<< >>), "Apfs", <<"ExtFS::new", "APFS::new", "ApfsFs::new">>)
        ELSE LET sofar == IF image.apfs
                            THEN <<"ExtFS::new", "APFS::new", "ApfsFs::new">>
                            ELSE <<"ExtFS::new", "APFS::new">>
             IN  IF image.ntfs
                   THEN out(Ok(<< >>), "Ntfs", sofar \o <<"NTFS::new">>)
                 ELSE IF image.exfat
                   THEN out(Ok(<< >>), "Exfat", sofar \o <<"NTFS::new", "ExFatFS::new">>)
                 ELSE out(Err("No supported filesystem detected at offset "
                                \o ToString(image.offset)),
                          "none", sofar \o <<"NTFS::new", "ExFatFS::new">>)

\* detect_filesystem: the result, the variant returned, the constructors
\* called in order, and the fields of the APFS adapter if that is the variant
detect_filesystem(image, vols) ==
    LET apfs_fs == ApfsNew(vols)
        out(r, v, c) == [res |-> r, variant |-> v, calls |-> c, adapter |-> apfs_fs]
    IN  IF ~image.slice THEN out(Err("Could not create BodySlice"), "none", << >>)
        ELSE IF image.ext THEN out(Ok(<< >>), "Ext", <<"ExtFS::new">>)
        ELSE IF image.apfs /\ IsOk(apfs_fs)
          THEN out(Ok(<< >>), "Apfs", <<"ExtFS::new", "APFS::new", "ApfsFs::new">>)
        ELSE LET sofar == IF image.apfs
                            THEN <<"ExtFS::new", "APFS::new", "ApfsFs::new">>
                            ELSE <<"ExtFS::new", "APFS::new">>
             IN  IF image.exfat
                   THEN out(Ok(<< >>), "Exfat", sofar \o <<"ExFatFS::new">>)
                 ELSE IF image.ntfs
                   THEN out(Ok(<< >>), "Ntfs", sofar \o <<"ExFatFS::new", "NTFS::new">>)
                 ELSE out(Err("No supported filesystem detected at offset "
                                \o ToString(image.offset)),
                          "none", sofar \o <<"ExFatFS::new", "NTFS::new">>)

\* a DetectedFile and a DetectedDir: the variant and the driver's value
DetectedFile(variant, rec) == [variant |-> variant, rec |-> rec]

DetectedDir(variant, entry) == [variant |-> variant, entry |-> entry]

\* v.into_iter().map(DetectedDir::X).collect()
MapDetectedDir(variant, entries) ==
    [k \in DOMAIN entries |-> DetectedDir(variant, entries[k])]

\* records fetched from other DetectedFs values, one of each variant
ForeignFiles ==
    { DetectedFile("Ext", [id |-> 2, is_dir |-> TRUE]),
      DetectedFile("Ntfs", [id |-> 5, is_dir |-> TRUE]),
      DetectedFile("Exfat", [id |-> 2, is_dir |-> TRUE]),
      DetectedFile("Apfs", ApfsFileRecord(0, 2, Inode("dir", None, 0, 0))) }

\* the identifiers handed to DetectedFs::get_file
DetectIds == {2, 3, 5, 11, 20}

\* mutant of detected_list_dir: a record of another variant lists as empty
detected_list_dir_Swallow(variant, ad, fs, file) ==
    LET quiet(r) == [res |-> r, cache |-> ad.cache, pos |-> ad.pos,
                     reads |-> << >>, calls |-> << >>]
        a == list_dir(ad, file.rec)
        g == IF file.rec.id \in DOMAIN fs.nodes THEN gen_list_dir(fs, file.rec)
             ELSE Err("record not found")
    IN  IF file.variant # variant THEN quiet(Ok(<< >>))
        ELSE IF variant = "Apfs"
          THEN [res |-> IF IsOk(a.res)
                          THEN Ok(MapDetectedDir("Apfs", a.res.val)) ELSE a.res,
                cache |-> a.cache, pos |-> a.pos, reads |-> a.reads,
                calls |-> <<"Apfs::list_dir">>]
        ELSE [res |-> IF IsOk(g) THEN Ok(MapDetectedDir(variant, g.val)) ELSE g,
              cache |-> ad.cache, pos |-> ad.pos, reads |-> << >>,
              calls |-> <<variant \o "::list_dir">>]

\* DetectedFs::list_dir on the variant `variant`, whose driver state is ad
\* (APFS) or fs (the others): the result, the state the call leaves and the
\* driver operations it invoked
detected_list_dir(variant, ad, fs, file) ==
    LET quiet(r) == [res |-> r, cache |-> ad.cache, pos |-> ad.pos,
                     reads |-> << >>, calls |-> << >>]
        a == list_dir(ad, file.rec)
        g == IF file.rec.id \in DOMAIN fs.nodes THEN gen_list_dir(fs, file.rec)
             ELSE Err("record not found")
    IN  IF file.variant # variant
          THEN quiet(Err("filesystem / record variant mismatch"))
        ELSE IF variant = "Apfs"
          THEN [res |-> IF IsOk(a.res)
                          THEN Ok(MapDetectedDir("Apfs", a.res.val)) ELSE a.res,
                cache |-> a.cache, pos |-> a.pos, reads |-> a.reads,
                calls |-> <<"Apfs::list_dir">>]
        ELSE [res |-> IF IsOk(g) THEN Ok(MapDetectedDir(variant, g.val)) ELSE g,
              cache |-> ad.cache, pos |-> ad.pos, reads |-> << >>,
              calls |-> <<variant \o "::list_dir">>]

\* DetectedFs::get_file
detected_get_file(variant, ad, fs, id) ==
    LET a == get_file(ad, id)
        g == gen_get_file(fs, id)
    IN  IF variant = "Apfs"
          THEN [res |-> IF IsOk(a.res)
                          THEN Ok(DetectedFile("Apfs", a.res.val)) ELSE a.res,
                cache |-> a.cache, pos |-> a.pos, reads |-> a.reads,
                calls |-> <<"Apfs::get_file">>]
        ELSE [res |-> IF IsOk(g) THEN Ok(DetectedFile(variant, g.val)) ELSE g,
              cache |-> ad.cache, pos |-> ad.pos, reads |-> << >>,
              calls |-> <<variant \o "::get_file">>]

\* unreachable!(...): the thread panics
UnreachablePanic ==
    [kind |-> "abort", val |-> << >>,
     msg |-> "internal error: entered unreachable code: filesystem / record variant mismatch"]

\* what read_file_content, read_file_prefix and read_file_slice of the
\* Ext, NT and exFAT drivers may answer
DriverReadResults == {Ok(<< >>), Ok(<<1, 2>>), Err("driver read error")}

\* the offsets and lengths handed to the read operations of a DetectedFs
DetectArgs == {[offset |-> o, length |-> l] : o \in {0, 1}, l \in {0, 2}}

\* DetectedFs::read_file_content, read_file_prefix and read_file_slice
\* (op names which) on the variant `variant`; driver is what the driver of
\* another filesystem than APFS answers
detected_read(variant, ad, op, file, offset, length, driver) ==
    LET quiet(r) == [res |-> r, cache |-> ad.cache, pos |-> ad.pos,
                     reads |-> << >>, calls |-> << >>]
        a == CASE op = "read_file_content" -> read_file_content(ad, file.rec)
               [] op = "read_file_prefix" -> read_file_prefix(ad, file.rec, length)
               [] op = "read_file_slice" ->
                    read_file_slice(ad, file.rec, offset, length)
    IN  IF file.variant # variant
          THEN quiet(Err("filesystem / record variant mismatch"))
        ELSE IF variant = "Apfs"
          THEN [res |-> a.res, cache |-> a.cache, pos |-> a.pos,
                reads |-> a.reads, calls |-> <<"Apfs::" \o op>>]
        ELSE [res |-> driver, cache |-> ad.cache, pos |-> ad.pos,
              reads |-> << >>, calls |-> <<variant \o "::" \o op>>]

\* DetectedFs::record_to_file: the File of the matching driver, or the
\* panic of unreachable!
detected_record_to_file(variant, ad, file, id, absolute_path) ==
    LET quiet(r, c) == [res |-> r, cache |-> ad.cache, pos |-> ad.pos,
                        reads |-> << >>, calls |-> c]
    IN  IF file.variant # variant THEN quiet(UnreachablePanic, << >>)
        ELSE IF variant = "Apfs"
          THEN quiet(Ok(record_to_file(file.rec, id, absolute_path)),
                     <<"Apfs::record_to_file">>)
        ELSE quiet(Ok(gen_record_to_file(file.rec, id, absolute_path)),
                   <<variant \o "::record_to_file">>)

\* before detect_filesystem: an image, no filesystem
InitDetect ==
    /\ container \in DetectContainers
    /\ probe = DefaultProbe
    /\ overflow_checks = FALSE
    /\ arg = NoArg
    /\ gfs \in GenericFilesystems
    /\ walk = NoWalk
    /\ valid_volumes = << >>
    /\ volume = << >>
    /\ root_inode_id = 0
    /\ cached_trees = << >>
    /\ body_pos = 0
    /\ last = NoCall
    /\ detected \in {[image |-> i, variant |-> "none", calls |-> << >>] : i \in Images}
    /\ stream = NoStream

\* detect_filesystem(body, offset, partition_size)
DetectFilesystem ==
    /\ last.op = "none"
    /\ LET d == detect_filesystem(detected.image, container)
       IN  /\ detected' = [detected EXCEPT !.variant = d.variant, !.calls = d.calls]
           /\ IF d.variant = "Apfs"
                THEN /\ valid_volumes' = d.adapter.val.valid_volumes
                     /\ volume' = d.adapter.val.volume
                     /\ root_inode_id' = d.adapter.val.root_inode_id
                ELSE UNCHANGED <<valid_volumes, volume, root_inode_id>>
           /\ last' = [op |-> "detect_filesystem", file |-> << >>,
                       offset |-> detected.image.offset, length |-> 0,
                       res |-> d.res, reads |-> << >>]
    /\ UNCHANGED <<container, probe, overflow_checks, cached_trees, body_pos,
                   arg, gfs, walk, stream>>

\* a call on the DetectedFs returns
DetectedReturn(op, file, id, r) ==
    /\ last.res.kind # "abort"
    /\ cached_trees' = r.cache
    /\ body_pos' = r.pos
    /\ detected' = [detected EXCEPT !.calls = r.calls]
    /\ last' = [op |-> op, file |-> file, offset |-> id, length |-> 0,
                res |-> r.res, reads |-> r.reads]
    /\ UNCHANGED <<container, probe, overflow_checks, valid_volumes, volume,
                   root_inode_id, arg, gfs, walk, stream>>

\* DetectedFs::get_file on an identifier the caller chooses
DetectedGetFile ==
    /\ detected.variant # "none"
    /\ \E id \in DetectIds :
         DetectedReturn("DetectedFs::get_file", << >>, id,
                        detected_get_file(detected.variant, Adapter, gfs, id))

\* DetectedFs::list_dir on the record the last get_file returned, or on a
\* record that some other DetectedFs returned
DetectedListDir ==
    /\ detected.variant # "none"
    /\ \E file \in ForeignFiles \cup
                   (IF last.op = "DetectedFs::get_file" /\ IsOk(last.res)
                      THEN {last.res.val} ELSE {}) :
         DetectedReturn("DetectedFs::list_dir", file, 0,
                        detected_list_dir(detected.variant, Adapter, gfs, file))

\* the records handed to a DetectedFs: the one the last get_file returned,
\* or one that some other DetectedFs returned
DetectRecords ==
    ForeignFiles \cup (IF last.op = "DetectedFs::get_file" /\ IsOk(last.res)
                         THEN {last.res.val} ELSE {})

\* DetectedFs::read_file_content, read_file_prefix or read_file_slice
DetectedRead ==
    /\ detected.variant # "none"
    /\ last.res.kind # "abort"
    /\ \E file \in DetectRecords, op \in ContentReads, a \in DetectArgs,
          driver \in DriverReadResults :
         \E r \in {detected_read(detected.variant, Adapter, op, file,
                                 a.offset, a.length, driver)} :
             /\ cached_trees' = r.cache
             /\ body_pos' = r.pos
             /\ detected' = [detected EXCEPT !.calls = r.calls]
             /\ last' = [op |-> "DetectedFs::" \o op, file |-> file,
                         offset |-> a.offset, length |-> a.length,
                         res |-> r.res, reads |-> r.reads]
    /\ UNCHANGED <<container, probe, overflow_checks, valid_volumes, volume,
                   root_inode_id, arg, gfs, walk, stream>>

\* DetectedFs::record_to_file
DetectedRecordToFile ==
    /\ detected.variant # "none"
    /\ \E file \in DetectRecords :
         DetectedReturn("DetectedFs::record_to_file", file, 0,
                        detected_record_to_file(detected.variant, Adapter, file,
                                                7, "/x"))

NextDetect == DetectFilesystem \/ DetectedGetFile \/ DetectedListDir

SpecDetect == InitDetect /\ [][NextDetect]_vars

\* the images on which exactly one driver constructs: one per variant
DispatchImages ==
    {i \in Images :
       /\ i.offset = 0 /\ i.slice
       /\ \E d \in {"ext", "apfs", "exfat", "ntfs"} :
            i = Image(0, TRUE, d = "ext", d = "apfs", d = "exfat", d = "ntfs")}

\* before detect_filesystem, on an image one driver recognises
InitDispatch ==
    /\ container \in {ProbeContainer,
                      <<Volume(2, "main", TRUE, 2), Volume(1, "second", TRUE, 2)>>}
    /\ probe = DefaultProbe
    /\ overflow_checks = FALSE
    /\ arg = NoArg
    /\ gfs \in GenericFilesystems
    /\ walk = NoWalk
    /\ valid_volumes = << >>
    /\ volume = << >>
    /\ root_inode_id = 0
    /\ cached_trees = << >>
    /\ body_pos = 0
    /\ last = NoCall
    /\ detected \in {[image |-> i, variant |-> "none", calls |-> << >>] :
                       i \in DispatchImages}
    /\ stream = NoStream

NextDispatch ==
    \/ DetectFilesystem \/ DetectedGetFile \/ DetectedListDir
    \/ DetectedRead \/ DetectedRecordToFile

SpecDispatch == InitDispatch /\ [][NextDispatch]_vars

\* C11: list_dir on a DetectedFs of one variant with a DetectedFile of
\* another fails with "filesystem / record variant mismatch", invokes no
\* operation of the driver and leaves the adapter and the byte source as
\* they were.
C11_ListDirMismatch ==
    [][(/\ last'.op = "DetectedFs::list_dir"
        /\ last'.file.variant # detected.variant)
       => /\ last'.res = Err("filesystem / record variant mismatch")
          /\ detected'.calls = << >>
          /\ last'.reads = << >>
          /\ UNCHANGED <<cached_trees, body_pos, valid_volumes, volume,
                         root_inode_id, gfs>>]_vars

\* an Extended filesystem was asked to list an NT record: the call failed
\* with the mismatch error
C11_Witness ==
    /\ last.op = "DetectedFs::list_dir"
    /\ detected.variant = "Ext"
    /\ last.file.variant = "Ntfs"
    /\ last.res = Err("filesystem / record variant mismatch")

\* the drivers in the order detect_filesystem is said to probe them
ProbeOrder == <<"Ext", "Apfs", "Exfat", "Ntfs">>

\* the constructor a probe of a driver starts with
ConstructorOf(driver) ==
    CASE driver = "Ext" -> "ExtFS::new"
      [] driver = "Apfs" -> "APFS::new"
      [] driver = "Exfat" -> "ExFatFS::new"
      [] driver = "Ntfs" -> "NTFS::new"

\* the driver constructs successfully on the image
Constructs(driver) ==
    CASE driver = "Ext" -> detected.image.ext
      [] driver = "Apfs" -> detected.image.apfs /\ IsOk(ApfsNew(container))
      [] driver = "Exfat" -> detected.image.exfat
      [] driver = "Ntfs" -> detected.image.ntfs

\* the drivers probed, in the order of their probes
ProbedDrivers ==
    SelectSeq(detected.calls, LAMBDA c : c # "ApfsFs::new")

\* C13: detect_filesystem probes Extended, APFS, exFAT, NT in this order,
\* returns the variant of the first driver that constructs successfully
\* and probes no driver after it; it fails with "No supported filesystem
\* detected at offset <N>" exactly when all four probes fail.
C13_DetectOrder ==
    (last.op = "detect_filesystem" /\ detected.image.slice)
    => LET winners == {k \in 1..4 : Constructs(ProbeOrder[k])}
           first == CHOOSE k \in winners : \A j \in winners : k <= j
           none == Err("No supported filesystem detected at offset "
                         \o ToString(detected.image.offset))
       IN  /\ (last.res = none) <=> (winners = {})
           /\ IF winners = {}
                THEN /\ detected.variant = "none"
                     /\ ProbedDrivers = [k \in 1..4 |-> ConstructorOf(ProbeOrder[k])]
                ELSE /\ IsOk(last.res)
                     /\ detected.variant = ProbeOrder[first]
                     /\ ProbedDrivers =
                          [k \in 1..first |-> ConstructorOf(ProbeOrder[k])]

\* exFAT and NT both accept the image, Extended and APFS do not: the
\* result is the exFAT variant and NT was never probed
C13_Witness ==
    /\ last.op = "detect_filesystem"
    /\ detected.image.exfat /\ detected.image.ntfs
    /\ detected.image.apfs /\ ~IsOk(ApfsNew(container))
    /\ detected.variant = "Exfat"
    /\ detected.calls = <<"ExtFS::new", "APFS::new", "ApfsFs::new", "ExFatFS::new">>

\* no driver accepts the image at offset 2048
C13_WitnessNone ==
    /\ last.op = "detect_filesystem"
    /\ last.res = Err("No supported filesystem detected at offset 2048")

---------------------------------------------------------------------------
(* FsFileReadSeek: the Read + Seek adapter over Filesystem::read_file_slice *)

\* CACHE_SIZE (64 KiB), in the units of the model's reads
CACHE_SIZE == 3

\* i64::MAX and i64::MIN at the model's width
I64_MAX == U64_MAX \div 2

I64_MIN == 0 - I64_MAX - 1

\* Result::unwrap on an Err: the thread panics
UnwrapPanic ==
    [kind |-> "abort", val |-> << >>,
     msg |-> "called Result::unwrap() on an Err value"]

\* the result of a slice read that was not made
NoSlice == [kind |-> "none", val |-> << >>, msg |-> ""]

\* largest number of calls made on one FsFileReadSeek
MaxStreamCalls == 3

\* the files a stream is opened on: files of five and seven bytes read
\* through two caches, an empty file, a directory, a file with an extent
\* the byte source cannot deliver, and a file as large as u64 allows
StreamProbes ==
    { [inode |-> Inode("reg", 5, 0, 0), ext |-> <<Extent(0, 3, 2), Extent(2, 5, 2)>>],
      [inode |-> Inode("reg", 7, 0, 0), ext |-> <<Extent(0, 4, 7)>>],
      [inode |-> Inode("reg", 0, 0, 0), ext |-> << >>],
      [inode |-> Inode("dir", 3, 0, 0), ext |-> <<Extent(0, 3, 2)>>],
      [inode |-> Inode("reg", 4, 0, 0),
       ext |-> <<Extent(0, 3, 2), Extent(2, DiskLen \div BlockSize, 2)>>],
      [inode |-> Inode("reg", U64_MAX, 0, 0), ext |-> <<Extent(0, 3, 2)>>] }

\* FsFileReadSeek::new(fs, file)
FsFileReadSeekNew(file) ==
    [file |-> file, len |-> size(file), pos |-> 0, cache |-> << >>,
     cache_start |-> 0, calls |-> 0]

\* refill_cache once read_file_slice has returned r: unwrap panics on an
\* error, otherwise the data becomes the cache
Refilled(st, at, r) ==
    IF ~IsOk(r.res)
      THEN [stream |-> st, cache |-> r.cache, pos |-> r.pos, reads |-> r.reads,
            slice |-> r.res, panic |-> TRUE]
    ELSE [stream |-> [st EXCEPT !.cache = r.res.val, !.cache_start = at],
          cache |-> r.cache, pos |-> r.pos, reads |-> r.reads,
          slice |-> r.res, panic |-> FALSE]

\* FsFileReadSeek::refill_cache(at) on the stream st over the adapter ad:
\* the stream and the adapter after it, the result of the slice read it
\* made (NoSlice when it made none) and whether unwrap panicked
refill_cache(st, ad, at) ==
    IF at >= st.len
      THEN [stream |-> [st EXCEPT !.cache = << >>, !.cache_start = at],
            cache |-> ad.cache, pos |-> ad.pos, reads |-> << >>,
            slice |-> NoSlice, panic |-> FALSE]
    ELSE CHOOSE out \in
           { Refilled(st, at, r) :
               r \in {read_file_slice(ad, st.file, at,
                                      Min(st.len - at, CACHE_SIZE))} } : TRUE

\* mutant of CopyFromCache: the position stays where it was
CopyFromCache_NoAdvance(st, f, n) ==
    LET s == f.stream
        cache_off == st.pos - s.cache_start
        available == saturating_sub(Len(s.cache), cache_off)
        to_copy == Min(available, n)
        done(r, s2) == [res |-> r, stream |-> s2, cache |-> f.cache, pos |-> f.pos,
                        reads |-> f.reads, slice |-> f.slice]
    IN  IF f.panic
          THEN done(IF f.slice.kind = "abort" THEN f.slice ELSE UnwrapPanic, s)
        ELSE IF s.cache = << >> THEN done(Ok(<< >>), s)
        ELSE IF available = 0 THEN done(Ok(<< >>), s)
        ELSE done(Ok(SubSeq(s.cache, cache_off + 1, cache_off + to_copy)), s)

\* Read::read after the cache was looked at (f is what refill_cache left,
\* or the stream as it was): the bytes at the position are copied out of
\* the cache and the position advances
CopyFromCache(st, f, n) ==
    LET s == f.stream
        cache_off == st.pos - s.cache_start
        available == saturating_sub(Len(s.cache), cache_off)
        to_copy == Min(available, n)
        done(r, s2) == [res |-> r, stream |-> s2, cache |-> f.cache, pos |-> f.pos,
                        reads |-> f.reads, slice |-> f.slice]
    IN  IF f.panic
          THEN done(IF f.slice.kind = "abort" THEN f.slice ELSE UnwrapPanic, s)
        ELSE IF s.cache = << >> THEN done(Ok(<< >>), s)
        ELSE IF available = 0 THEN done(Ok(<< >>), s)
        ELSE done(Ok(SubSeq(s.cache, cache_off + 1, cache_off + to_copy)),
                  [s EXCEPT !.pos = st.pos + to_copy])

\* Read::read(buf) with buf.len() = n: Ok of the bytes copied into buf (the
\* call returns their number), or the panic of refill_cache
stream_read(st, ad, n) ==
    LET same(r) == [res |-> r, stream |-> st, cache |-> ad.cache, pos |-> ad.pos,
                    reads |-> << >>, slice |-> NoSlice]
        cache_end == saturating_add(st.cache_start, Len(st.cache))
        stale == st.cache = << >>
                   \/ ~(st.cache_start <= st.pos /\ st.pos < cache_end)
        kept == [stream |-> st, cache |-> ad.cache, pos |-> ad.pos,
                 reads |-> << >>, slice |-> NoSlice, panic |-> FALSE]
    IN  IF n = 0 THEN same(Ok(<< >>))
        ELSE IF st.pos >= st.len THEN same(Ok(<< >>))
        ELSE CHOOSE out \in
               { CopyFromCache(st, f, n) :
                   f \in {IF stale THEN refill_cache(st, ad, st.pos) ELSE kept} } :
               TRUE

\* Seek::seek(SeekFrom::whence(off)): the target is computed in i128 and
\* cast to u64
stream_seek(st, whence, off) ==
    LET new_pos_i128 == CASE whence = "Start" -> off
                          [] whence = "Current" -> st.pos + off
                          [] whence = "End" -> st.len + off
        new_pos == new_pos_i128 % (U64_MAX + 1)
    IN  IF new_pos_i128 < 0 THEN [res |-> Err("seek before start"), stream |-> st]
        ELSE IF new_pos > st.len THEN [res |-> Err("seek past end"), stream |-> st]
        ELSE [res |-> Ok(new_pos), stream |-> [st EXCEPT !.pos = new_pos]]

\* buffer lengths handed to read: empty, shorter and longer than the cache
BufLens == {0, 1, 2, CACHE_SIZE + 1}

\* the SeekFrom values handed to seek
SeekFroms ==
    ({"Start"} \X {0, 1, 4, 6, U64_MAX})
      \cup ({"Current"} \X {I64_MIN, 0 - 1, 0, 2, I64_MAX})
      \cup ({"End"} \X {I64_MIN, 0 - MAX_READ_BYTES, 0 - 2, 0, 1, 2})

InitStream ==
    /\ container = ProbeContainer
    /\ probe \in StreamProbes
    /\ overflow_checks \in BOOLEAN
    /\ arg = NoArg
    /\ gfs = DefaultGfs
    /\ IsOk(ApfsNew(container))
    /\ valid_volumes = ApfsNew(container).val.valid_volumes
    /\ volume = ApfsNew(container).val.volume
    /\ root_inode_id = ApfsNew(container).val.root_inode_id
    /\ cached_trees = << >>
    /\ body_pos = 0
    /\ last = NoCall
    /\ walk = NoWalk
    /\ detected = NoDetected
    /\ stream = FsFileReadSeekNew(ProbeRecord)

\* one call of Read::read on the stream
StreamRead ==
    /\ last.res.kind # "abort"
    /\ stream.calls < MaxStreamCalls
    /\ \E n \in BufLens :
         \E r \in {stream_read(stream, Adapter, n)} :
             /\ stream' = [r.stream EXCEPT !.calls = stream.calls + 1]
             /\ cached_trees' = r.cache
             /\ body_pos' = r.pos
             /\ last' = [op |-> "read", file |-> stream.file, offset |-> stream.pos,
                         length |-> n, res |-> r.res, reads |-> r.reads,
                         slice |-> r.slice, whence |-> "none"]
    /\ UNCHANGED <<container, probe, overflow_checks, valid_volumes, volume,
                   root_inode_id, arg, gfs, walk, detected>>

\* one call of Seek::seek on the stream
StreamSeek ==
    /\ last.res.kind # "abort"
    /\ stream.calls < MaxStreamCalls
    /\ \E sf \in SeekFroms :
         LET r == stream_seek(stream, sf[1], sf[2])
         IN  /\ stream' = [r.stream EXCEPT !.calls = stream.calls + 1]
             /\ last' = [op |-> "seek", file |-> stream.file, offset |-> stream.pos,
                         length |-> sf[2], res |-> r.res, reads |-> << >>,
                         slice |-> NoSlice, whence |-> sf[1]]
    /\ UNCHANGED <<container, probe, overflow_checks, valid_volumes, volume,
                   root_inode_id, cached_trees, body_pos, arg, gfs, walk, detected>>

NextStream == StreamRead \/ StreamSeek

SpecStream == InitStream /\ [][NextStream]_vars

\* the step is one call of seek
SeekStep == last'.op = "seek" /\ stream'.calls = stream.calls + 1

\* the target position of SeekFrom::whence(off), as an integer
Target(st, whence, off) ==
    CASE whence = "Start" -> off
      [] whence = "Current" -> st.pos + off
      [] whence = "End" -> st.len + off

\* C14: seek fails for every target position that is negative or greater
\* than the size, whatever the origin, the target being computed without
\* wrap-around, and a failed seek leaves the position and the cache as they
\* were; a successful seek sets the position to exactly the target, which
\* may equal the size.
C14_SeekBounds ==
    [][SeekStep =>
         LET t == Target(stream, last'.whence, last'.length)
         IN  IF t < 0 \/ t > stream.len
               THEN /\ ~IsOk(last'.res)
                    /\ stream'.pos = stream.pos
                    /\ stream'.cache = stream.cache
                    /\ stream'.cache_start = stream.cache_start
               ELSE /\ last'.res = Ok(t)
                    /\ stream'.pos = t]_vars

\* seek behaves as C14 says whenever the target is below 2^64
SeekBoundsBelowWrap ==
    [][(SeekStep /\ Target(stream, last'.whence, last'.length) <= U64_MAX) =>
         LET t == Target(stream, last'.whence, last'.length)
         IN  IF t < 0 \/ t > stream.len
               THEN /\ ~IsOk(last'.res)
                    /\ stream'.pos = stream.pos
                    /\ stream'.cache = stream.cache
                    /\ stream'.cache_start = stream.cache_start
               ELSE /\ last'.res = Ok(t)
                    /\ stream'.pos = t]_vars

\* a seek past the end of the file has succeeded: the target 2^64 + 1 was
\* cast to 1
SeekWrapped ==
    /\ last.op = "seek"
    /\ last.whence = "End"
    /\ last.length = 2
    /\ stream.len = U64_MAX
    /\ last.res = Ok(1)

\* the step is one call of read
ReadStep == last'.op = "read" /\ stream'.calls = stream.calls + 1

\* the bytes the cache holds from the position p on
AvailableFrom(st, p) ==
    IF st.cache_start <= p /\ p < st.cache_start + Len(st.cache)
      THEN st.cache_start + Len(st.cache) - p
    ELSE 0

\* the slice read of the step, if it made one, returned as many bytes as
\* refill_cache asked for
SliceDelivered ==
    \/ last'.slice = NoSlice /\ stream.cache # << >>
    \/ /\ IsOk(last'.slice)
       /\ Len(last'.slice.val) = Min(stream.len - stream.pos, CACHE_SIZE)

\* C15: a read that returns hands out nothing and changes nothing when
\* the position is at or past the end; otherwise it returns
\* n = min(buf.len, bytes the cache holds from the position on) bytes and
\* advances the position by exactly n, and n >= 1 whenever the buffer is
\* not empty, the position is below the size and the slice read returned
\* the bytes asked for.
C15_ReadAdvances ==
    [][(ReadStep /\ IsOk(last'.res)) =>
         LET n == Len(last'.res.val)
         IN  IF stream.pos >= stream.len
               THEN /\ n = 0
                    /\ stream'.pos = stream.pos
                    /\ stream'.cache = stream.cache
                    /\ stream'.cache_start = stream.cache_start
                    /\ cached_trees' = cached_trees
                    /\ body_pos' = body_pos
               ELSE /\ n = Min(last'.length, AvailableFrom(stream', stream.pos))
                    /\ stream'.pos = stream.pos + n
                    /\ (last'.length > 0 /\ SliceDelivered) => n >= 1]_vars

\* a read into a buffer longer than the cache has returned the whole
\* refilled cache and moved the position behind it
C15_Witness ==
    /\ last.op = "read"
    /\ IsOk(last.res)
    /\ IsOk(last.slice)
    /\ last.length = CACHE_SIZE + 1
    /\ Len(last.res.val) = CACHE_SIZE
    /\ stream.pos = last.offset + CACHE_SIZE
    /\ stream.pos < stream.len

\* C17: when read_file_slice fails during a cache refill, read returns an
\* error value to its caller instead of aborting the program, and the
\* position is left unchanged.
C17_RefillErrorReturned ==
    (last.op = "read" /\ last.slice # NoSlice /\ ~IsOk(last.slice)) =>
        /\ last.res.kind = "err"
        /\ stream.pos = last.offset

\* a read of a stream over a directory record has panicked in unwrap
RefillPanicked ==
    /\ last.op = "read"
    /\ is_dir(stream.file)
    /\ last.slice = Err("requested file content for a directory")
    /\ last.res = UnwrapPanic

---------------------------------------------------------------------------
(* the walks: errors, order, termination, identifiers *)

\* the APFS walk has returned an error
ApfsWalkFailed ==
    /\ walk.kind = "apfs" /\ walk.status = "done"
    /\ last.op = "enumerate_all_files"
    /\ ~IsOk(last.res)

\* C21: in the APFS cross-volume walk an error on a single node (the inode
\* lookup of a queued id failing or finding nothing, dir_children failing
\* for one directory) only skips the node or its children; the walk
\* returns an error only when the filesystem tree of a volume cannot be
\* obtained.
C21_NodeErrorsSkipped ==
    ApfsWalkFailed =>
        ~IsOk(get_fstree(cached_trees, walk.vols[walk.cur][1].fs_index).res)

\* the walk returns an error only for a tree that cannot be obtained or
\* an inode lookup that fails: an absent inode and an unlistable directory
\* are skipped
WalkFailsOnlyOnTreeOrLookup ==
    ApfsWalkFailed =>
        \/ ~IsOk(get_fstree(cached_trees, walk.vols[walk.cur][1].fs_index).res)
        \/ \E id \in walk.visited :
             last.res = inode_by_id(walk.vols[walk.cur][1].root_tree_oid, id)

\* the walk has returned the error of an inode lookup and left queued
\* items unvisited
WalkAbortedByLookup ==
    /\ ApfsWalkFailed
    /\ last.res = Err("inode record unreadable")
    /\ walk.queue # << >>

\* the string s ends with the string p
EndsWith(s, p) == Len(s) >= Len(p) /\ SubSeq(s, Len(s) - Len(p) + 1, Len(s)) = p

\* a walk that met an absent inode and an unlistable directory has
\* returned its list
WalkSkippedNodes ==
    /\ walk.kind = "apfs" /\ walk.status = "done"
    /\ last.op = "enumerate_all_files"
    /\ IsOk(last.res)
    /\ \E k \in DOMAIN walk.vols : walk.vols[k][1].root_tree_oid = "main"
    /\ \E k \in DOMAIN last.res.val :
         EndsWith(last.res.val[k].absolute_path, "/a/bad")
    /\ \A k \in DOMAIN last.res.val :
         ~EndsWith(last.res.val[k].absolute_path, "/lost")

\* the number of separators in the first n characters of a path
RECURSIVE CountSep(_, _, _)
CountSep(path, sep, n) ==
    IF n = 0 THEN 0
    ELSE CountSep(path, sep, n - 1)
           + (IF SubSeq(path, n, n) = sep THEN 1 ELSE 0)

\* the directory depth of a path of the generic engine: the root is the
\* separator itself, a child has one separator per directory above it
Depth(path, sep) == IF path = sep THEN 0 ELSE CountSep(path, sep, Len(path))

\* the identifiers a directory of fs hands to the walk: those its listing
\* names, when the record is found, is a directory and can be listed
ListedBy(fs, id) ==
    IF /\ id \in DOMAIN fs.nodes
       /\ fs.nodes[id].found
       /\ fs.nodes[id].is_dir
       /\ IsOk(fs.nodes[id].listing)
      THEN {fs.nodes[id].listing.val[k].file_id :
              k \in DOMAIN fs.nodes[id].listing.val}
      ELSE {}

\* the identifiers reachable from the set s through listed directories
RECURSIVE ReachableFrom(_, _)
ReachableFrom(fs, s) ==
    LET more == s \cup UNION {ListedBy(fs, id) : id \in s}
    IN  IF more = s THEN s ELSE ReachableFrom(fs, more)

\* the identifiers of a list of normalized records
IdentifiersOf(files) == {files[k].identifier : k \in DOMAIN files}

\* C22: the generic enumeration engine emits records breadth first: the
\* first record is the root under the separator, a record at smaller
\* directory depth is emitted before one at greater depth, and an error of
\* get_file or list_dir on one node only skips the node or its children:
\* the returned list holds every identifier reachable from the root
\* through listed directories whose record can be fetched.
C22_BreadthFirst ==
    walk.kind = "generic" =>
        /\ walk.out # << >> =>
             /\ walk.out[1].identifier = gfs.root
             /\ walk.out[1].absolute_path = gfs.sep
        /\ \A i, j \in DOMAIN walk.out :
             i < j => Depth(walk.out[i].absolute_path, gfs.sep)
                        <= Depth(walk.out[j].absolute_path, gfs.sep)
        /\ (walk.status = "done" /\ last.op = "enumerate_collect") =>
             /\ IsOk(last.res)
             /\ last.res.val = walk.out
             /\ IdentifiersOf(walk.out) =
                  {id \in ReachableFrom(gfs, {gfs.root}) : IsOk(gen_get_file(gfs, id))}

\* a walk has returned records of depth 0, 1, 1 and 2 in this order,
\* having skipped a record that cannot be fetched and the children of a
\* directory that cannot be listed
C22_Witness ==
    /\ walk.kind = "generic" /\ walk.status = "done"
    /\ last.op = "enumerate_collect"
    /\ Len(walk.out) = 4
    /\ walk.out[3].absolute_path = "/b"
    /\ walk.out[4].absolute_path = "/a/x"
    /\ 13 \in walk.visited
    /\ 13 \notin IdentifiersOf(walk.out)

---------------------------------------------------------------------------
(* ApfsFs: the effective size, physical offsets and the read window *)

\* the greatest element of a finite set of numbers
MaxOfSet(s) == CHOOSE m \in s : \A x \in s : x <= m

\* the extent records the claim names for a file: those keyed by its
\* inode id or, if there are none and private_id is not 0, those keyed by
\* its private id
ExtentSetOf(file) ==
    LET t == FstOf(file.fs_index)
        byInode == file_extents(t, file.inode_id)
        byPrivate == file_extents(t, file.inode.private_id)
        primary == IF IsOk(byInode) THEN byInode.val ELSE << >>
    IN  IF primary = << >> /\ file.inode.private_id # 0
          THEN (IF IsOk(byPrivate) THEN byPrivate.val ELSE << >>)
          ELSE primary

\* the read of the byte source rd = <<phys_byte, read_len>> lies in the
\* blocks of the extent e
ReadWithin(rd, e) ==
    /\ rd[1] >= e.phys_block_num * BlockSize
    /\ rd[1] + rd[2] <= e.phys_block_num * BlockSize + e.length_bytes

\* C23: effective_size is the maximum of the declared size and of
\* logical + length over the file's extents, the sum saturating at
\* 2^64 - 1; the extents are those keyed by inode_id or, if there are none
\* and private_id is not 0, those keyed by private_id, and a content read
\* reads the byte source only inside the extents of that same set.
C23_EffectiveSize ==
    LET f == ProbeRecord
        ext == ExtentSetOf(f)
        ends == {Min(ext[k].logical_addr + ext[k].length_bytes, U64_MAX) :
                   k \in DOMAIN ext}
    IN  /\ EffSize(f) = MaxOfSet({size(f)} \cup ends)
        /\ last.op \in ContentReads =>
             \A i \in DOMAIN last.reads :
                 \E k \in DOMAIN ext : ReadWithin(last.reads[i], ext[k])

\* a file without extents of its own was read through the extents of its
\* private id, which also give its effective size
C23_Witness ==
    /\ last.op = "read_file_content"
    /\ probe.ext = << >>
    /\ probe.inode.private_id = 9
    /\ size(ProbeRecord) = 1
    /\ EffSize(ProbeRecord) = 2
    /\ IsOk(last.res) /\ Len(last.res.val) = 2
    /\ last.reads = <<<<4 * BlockSize, 2>>>>

\* the extent of a file ends beyond 2^64 - 1 and its effective size is
\* 2^64 - 1
EffectiveSizeSaturated ==
    /\ probe.ext = <<Extent(U64_MAX - 1, 3, 3)>>
    /\ EffSize(ProbeRecord) = U64_MAX

\* the physical byte offsets of the extent e, as integers that do not wrap
PhysOffsets(e) ==
    {e.phys_block_num * BlockSize + rel : rel \in 0..(e.length_bytes - 1)}

\* the extent e overlaps the logical window [from, to) and the physical
\* offset of the start of the overlap does not fit 64 bits
OverflowsIn(e, from, to) ==
    LET ov_start == Max(e.logical_addr, from)
        ov_end == Min(e.logical_addr + e.length_bytes, to)
    IN  /\ ov_start < ov_end
        /\ e.phys_block_num * BlockSize + (ov_start - e.logical_addr) > U64_MAX

\* C24: in a content read the physical byte offset of an overlapping
\* extent is phys_block * block_size + (overlap_start - ext_start) in
\* overflow-checked arithmetic: the byte source is only sought to such an
\* offset, never to a wrapped one; the physical-offset-overflow error is
\* returned only when an offset exceeds 2^64 - 1, and no read succeeds
\* over an extent whose offset does.
C24_PhysicalOffsetChecked ==
    last.op \in ContentReads =>
        LET ext == ExtentSetOf(last.file)
        IN  /\ \A i \in DOMAIN last.reads :
                 /\ last.reads[i][1] <= U64_MAX
                 /\ \E k \in DOMAIN ext : last.reads[i][1] \in PhysOffsets(ext[k])
            /\ last.res = Err("physical offset overflow") =>
                 \E k \in DOMAIN ext :
                     \E p \in PhysOffsets(ext[k]) : p > U64_MAX
            /\ (IsOk(last.res) /\ last.res.val # << >>) =>
                 \A k \in DOMAIN ext :
                     ~OverflowsIn(ext[k], last.offset,
                                  last.offset + Len(last.res.val))

\* a read over an extent whose block number times the block size fits
\* but whose offset inside the extent does not has failed before any seek
C24_Witness ==
    /\ last.op = "read_file_slice"
    /\ probe.ext = <<Extent(0, U64_MAX \div BlockSize, 4)>>
    /\ last.offset = 2
    /\ last.length >= 1
    /\ last.res = Err("physical offset overflow")
    /\ last.reads = << >>

---------------------------------------------------------------------------
(* DetectedFs: every call that takes a record *)

\* the operations of a DetectedFs that take a record
RecordOps ==
    {"DetectedFs::read_file_content", "DetectedFs::read_file_prefix",
     "DetectedFs::read_file_slice", "DetectedFs::list_dir",
     "DetectedFs::record_to_file"}

\* C25: every dispatched call that takes a record (read_file_content,
\* read_file_prefix, read_file_slice, list_dir, record_to_file) reports a
\* record of another variant than the filesystem's as the error
\* "filesystem / record variant mismatch", and none aborts the program.
C25_MismatchReported ==
    (last.op \in RecordOps /\ last.file.variant # detected.variant) =>
        last.res = Err("filesystem / record variant mismatch")

\* the calls that return a Result report the mismatch as the error
MismatchReportedByResultOps ==
    (/\ last.op \in RecordOps \ {"DetectedFs::record_to_file"}
     /\ last.file.variant # detected.variant) =>
        /\ last.res = Err("filesystem / record variant mismatch")
        /\ detected.calls = << >>

\* record_to_file on a record of another variant has panicked
RecordToFilePanicked ==
    /\ last.op = "DetectedFs::record_to_file"
    /\ last.file.variant # detected.variant
    /\ last.res = UnreachablePanic

\* a read of a record of another variant has returned the mismatch error
ReadMismatchReturned ==
    /\ last.op = "DetectedFs::read_file_slice"
    /\ last.file.variant # detected.variant
    /\ last.res = Err("filesystem / record variant mismatch")

---------------------------------------------------------------------------
(* ApfsFs: what a sequence of operations leaves unchanged *)

\* get_file, list_dir, read_file_content and enumerate_all_files in any
\* order on one adapter; a call starts when the walk before it has returned
NextOps ==
    \/ walk.status # "running" /\ NextApfs
    \/ ApfsWalkStart \/ ApfsWalkVolume \/ ApfsWalkStep \/ ApfsWalkReturn

SpecOps == InitApfs /\ [][NextOps]_vars

\* the fs_index values of valid_volumes
ValidIndexes == {valid_volumes[k][1].fs_index : k \in DOMAIN valid_volumes}

\* C26: after construction no operation changes valid_volumes, the
\* selected volume or root_inode_id; the tree cache changes only by the
\* insertion of an entry for a volume not yet in it: its keys only grow
\* and are fs_index values of valid_volumes, an entry is never replaced or
\* removed, and an entry inserted is the tree that was opened for that
\* volume, so a failed operation inserts nothing it did not open.
C26_SelectionFixedCacheGrows ==
    [][/\ valid_volumes' = valid_volumes
       /\ volume' = volume
       /\ root_inode_id' = root_inode_id
       /\ DOMAIN cached_trees \subseteq DOMAIN cached_trees'
       /\ \A i \in DOMAIN cached_trees : cached_trees'[i] = cached_trees[i]
       /\ DOMAIN cached_trees' \subseteq ValidIndexes
       /\ \A i \in DOMAIN cached_trees' \ DOMAIN cached_trees :
            open_fstree_for_volume(volume_by_index(i)[1]) = Ok(cached_trees'[i])
      ]_vars

\* the trees of two volumes are cached, each the tree opened for its
\* volume, and a get_file has failed
C26_Witness ==
    /\ Cardinality(DOMAIN cached_trees) >= 2
    /\ \A i \in DOMAIN cached_trees :
         open_fstree_for_volume(volume_by_index(i)[1]) = Ok(cached_trees[i])
    /\ last.op = "get_file"
    /\ last.res = Err("inode not found")

---------------------------------------------------------------------------
(* FsFileReadSeek: the cached stream against read_file_slice *)

\* C27: the cache of the streaming adapter never serves stale data: under
\* any interleaving of seek and read, the n bytes a read at position p
\* returns are exactly the bytes read_file_slice(file, p, n) returns.
C27_CacheIsFresh ==
    (last.op = "read" /\ IsOk(last.res)) =>
        read_file_slice(Adapter, stream.file, last.offset,
                        Len(last.res.val)).res = Ok(last.res.val)

\* the cache serves what read_file_slice returns whenever the window of
\* the slice read, position + MAX_READ_BYTES, fits 64 bits
CacheIsFreshBelowWrap ==
    (/\ last.op = "read" /\ IsOk(last.res)
     /\ last.offset + MAX_READ_BYTES <= U64_MAX) =>
        read_file_slice(Adapter, stream.file, last.offset,
                        Len(last.res.val)).res = Ok(last.res.val)

\* a read served from a cache that was filled before a seek moved the
\* position back into it
ReadServedAfterSeek ==
    /\ last.op = "read" /\ IsOk(last.res)
    /\ last.slice = NoSlice
    /\ Len(last.res.val) >= 1
    /\ last.offset > stream.cache_start

\* a read near the end of a file as large as u64 allows has returned a
\* byte of the cache where read_file_slice returns none
ReadBeyondSliceWindow ==
    /\ last.op = "read" /\ IsOk(last.res)
    /\ stream.len = U64_MAX
    /\ last.offset + MAX_READ_BYTES > U64_MAX
    /\ Len(last.res.val) >= 1

---------------------------------------------------------------------------
(* ApfsFs::read_file_slice_with_size: the end of the read window *)

\* read_file_slice was asked for at least one byte of a file, from an
\* offset below its effective size
SliceInsideFile ==
    /\ last.op = "read_file_slice"
    /\ ~is_dir(last.file)
    /\ last.length >= 1
    /\ last.offset < EffSize(last.file)

\* C28: the end of the read window, min(offset + length, file_size,
\* offset + MAX_READ_BYTES), is computed without 64-bit overflow for every
\* offset below the file size and every length >= 1, offsets above
\* 2^64 - 1 - MAX_READ_BYTES included: the call neither aborts nor returns
\* fewer than min(length, file_size - offset, MAX_READ_BYTES) bytes.
C28_WindowEndNoOverflow ==
    SliceInsideFile =>
        /\ last.res.kind # "abort"
        /\ IsOk(last.res) =>
             Len(last.res.val) >=
               Min(Min(last.length, EffSize(last.file) - last.offset),
                   MAX_READ_BYTES)

\* the window end is as C28 says for every offset up to
\* 2^64 - 1 - MAX_READ_BYTES
WindowEndBelowWrap ==
    (SliceInsideFile /\ last.offset + MAX_READ_BYTES <= U64_MAX) =>
        /\ last.res.kind # "abort"
        /\ IsOk(last.res) =>
             Len(last.res.val) =
               Min(Min(last.length, EffSize(last.file) - last.offset),
                   MAX_READ_BYTES)

\* a build with overflow checks has panicked on offset + MAX_READ_BYTES
WindowEndPanicked ==
    /\ SliceInsideFile
    /\ overflow_checks
    /\ last.offset + MAX_READ_BYTES > U64_MAX
    /\ last.res = Abort

\* a build without overflow checks has returned no byte of a file that
\* holds one at the offset
WindowEndWrapped ==
    /\ SliceInsideFile
    /\ ~overflow_checks
    /\ last.offset + MAX_READ_BYTES > U64_MAX
    /\ last.res = Ok(<< >>)

---------------------------------------------------------------------------
(* the walks terminate *)

\* the loops of a walk run on once the walk is called: each iteration,
\* the step to the next volume and the return are taken when they can be
SpecWalkLive ==
    /\ InitWalk
    /\ [][NextWalk]_vars
    /\ WF_vars(ApfsWalkVolume \/ ApfsWalkStep \/ ApfsWalkReturn
                 \/ GenWalkStep \/ GenWalkReturn)

\* the step is an iteration of a walk that emits a record (and expands
\* it, if it is a directory that can be listed)
Emits ==
    /\ walk.status = "running"
    /\ walk'.kind = walk.kind
    /\ Len(walk'.out) = Len(walk.out) + 1

\* C29: both breadth-first walks terminate, also on a directory graph
\* with cycles or a directory listing itself or an ancestor: an
\* identifier is emitted and expanded only when it is popped for the
\* first time in the walk (of the volume, for APFS), it is visited from
\* then on, and a walk that runs returns.
C29_WalksTerminate ==
    /\ [][Emits => /\ Head(walk.queue).id \notin walk.visited
                   /\ walk'.visited = walk.visited \cup {Head(walk.queue).id}]_vars
    /\ (walk.status = "running") ~> (walk.status = "done")

\* a walk over a graph in which a directory lists itself and its parent
\* has returned, each of the two walks in its turn
C29_Witness ==
    /\ walk.status = "done"
    /\ \/ /\ walk.kind = "apfs"
          /\ \E k \in DOMAIN walk.vols : walk.vols[k][1].root_tree_oid = "main"
          /\ IsOk(last.res) /\ Len(last.res.val) >= 6
       \/ /\ walk.kind = "generic"
          /\ gfs.root = 5
          /\ IsOk(last.res) /\ Len(last.res.val) = 3

---------------------------------------------------------------------------
(* ApfsFs: the identifier of an emitted record, given back to get_file *)

\* a step of walk_fs that pushes a record of the inode at the queue's head
ApfsEmits ==
    /\ walk.kind = "apfs" /\ walk.status = "running"
    /\ walk.queue # << >>
    /\ Len(walk'.out) = Len(walk.out) + 1

\* the record pushed by the step carries pack_identifier(fs_index, id), and
\* get_file on the adapter the step leaves answers that identifier with the
\* record of inode id on volume fs_index
ResolvesBack(fs_index, id) ==
    LET rec == walk'.out[Len(walk'.out)]
        back == get_file([cache |-> cached_trees', pos |-> body_pos'],
                         rec.identifier).res
    IN  /\ rec.identifier = pack_identifier(fs_index, id)
        /\ IsOk(back)
        /\ back.val.fs_index = fs_index
        /\ back.val.inode_id = id

\* C30 as stated: every record the APFS walk emits carries
\* pack_identifier(fs_index, inode_id), and get_file on the same adapter
\* resolves that identifier to the record of the same (fs_index, inode_id),
\* for every valid volume and every inode id below 2^56
C30_IdentifierResolvesBack ==
    [][ApfsEmits /\ Head(walk.queue).id <= PACKED_INODE_MASK
         => ResolvesBack(walk.vols[walk.cur][1].fs_index, Head(walk.queue).id)]_vars

\* C30 amended: every record the APFS walk emits carries
\* pack_identifier(fs_index, inode_id), and get_file on the same adapter
\* resolves that identifier to the record of the same (fs_index, inode_id),
\* for every inode id from 1 to 2^56 - 1 on every valid volume, and for
\* inode id 0 on volume 0
C30_IdentifierResolvesBackFromOne ==
    [][ApfsEmits /\ Head(walk.queue).id <= PACKED_INODE_MASK
         /\ (Head(walk.queue).id >= 1 \/ walk.vols[walk.cur][1].fs_index = 0)
         => ResolvesBack(walk.vols[walk.cur][1].fs_index, Head(walk.queue).id)]_vars

\* a finished walk has emitted a record of volume 0 and, on a later volume,
\* the inode with the largest id that fits; get_file answers both
\* identifiers with the inode of that id on that volume
C30_Witness ==
    /\ walk.kind = "apfs" /\ walk.status = "done"
    /\ \E i, j \in 1..Len(walk.out) :
          LET bare == walk.out[i].identifier
              high == walk.out[j].identifier
              b == get_file(Adapter, bare).res
              h == get_file(Adapter, high).res
          IN  /\ bare <= PACKED_INODE_MASK
              /\ IsOk(b) /\ b.val.fs_index = 0 /\ b.val.inode_id = bare
              /\ high = pack_identifier(1, PACKED_INODE_MASK)
              /\ IsOk(h) /\ h.val.fs_index = 1
              /\ h.val.inode_id = PACKED_INODE_MASK

\* the walk has emitted inode 0 of a volume after volume 0: the identifier
\* does not unpack, and get_file looks for it in the selected volume
ZeroInodeUnresolved ==
    /\ walk.kind = "apfs" /\ walk.out # << >>
    /\ LET rec == walk.out[Len(walk.out)]
       IN  /\ rec.identifier = pack_identifier(1, 0)
           /\ unpack_identifier(rec.identifier) = << >>
           /\ get_file(Adapter, rec.identifier).res = Err("inode not found")

====
